---------------------------- MODULE Spec2Model ----------------------------
(***************************************************************************)
(* A model of the InferXgate LLM gateway's request path: the sliding-window *)
(* rate gate (rate_limiter.rs, auth/middleware.rs enforce_rate_limit), the  *)
(* authenticator and its two-tier key cache (auth/middleware.rs), the key   *)
(* management handlers (handlers/auth.rs) and the route table with its      *)
(* configure/delete operations (handlers/provider.rs, main.rs).             *)
(*                                                                         *)
(* Optional values (Rust's Option<T>) are sets with at most one element:    *)
(* {} is None and {v} is Some(v).                                           *)
(***************************************************************************)
EXTENDS Integers, Sequences, FiniteSets, Bags, TLC

VARIABLES
    now,        \* the wall clock, Utc::now().timestamp(), in seconds
    redisUp,    \* RateLimiter.redis_client / AppState.redis is Some
    zsets,      \* the counter store: sorted set per (key id, dimension)
    gate,       \* the bag of request tasks inside enforce_rate_limit, each
                \* with its position and locals
    started,    \* the number of gate checks started so far
    admitted,   \* history: the bag of <<key, time>> of the checks the limiter admitted
    lastGate,   \* the outcome of the gate check that ended last, if any
    billed,     \* history: the bag of completions served to admitted checks
    dbUp,       \* Database::get_pool() is Some
    sessions,   \* the sessions table
    vkeys,      \* the virtual_keys table
    kv,         \* the string keys of the cache store, with their expiry
    issued,     \* history: the session tokens the gateway has issued
    secretOf,   \* history: <<key id, secret>> for every key generated
    revoked,    \* history: the tokens of a user issued before a logout of theirs
    disabledAt, \* history: <<key id, time>> for every key blocked in or deleted
                \* from the virtual_keys table, when that was first so
    verified,   \* history: per bearer, when the slow path last cached it
    reqs,       \* the number of HTTP requests served so far
    lastResp,   \* the request served last and its response, if any
    model_routes,   \* AppState.model_routes: the route of each model
    provider_keys,  \* the provider_keys table
    calls,      \* the provider handlers in progress, each with its locals
    lastDone,   \* history: per provider, the provider call that returned last
    lastChat,   \* the chat completion served last and its outcome, if any
    cache_enabled,  \* CacheManager.enabled
    llm_cache,  \* the llm:cache:* keys of the cache store, with their expiry
    chats,      \* the chat completion tasks, in flight and ended, in order
                \* of arrival, each with its locals and what it did
    finished,   \* the number of chat completion tasks that have ended
    usage_records,  \* the usage_records table, in order of insertion
    provider_health,    \* LoadBalancer.provider_health
    lastHealth, \* history: the last call of the health tracker and the map
                \* it found, if any
    validity,   \* history: the last call of VirtualKey::is_valid, when it was
                \* made and what it returned, if any
    evaluated   \* history: the last call of a function without side effects
                \* (the Azure adapter's request, the cost calculator, the
                \* startup route table), its arguments and its result, if any

envVars == <<now, redisUp>>
rateVars == <<zsets, gate, started, admitted, lastGate, billed>>
authVars ==
    <<dbUp, sessions, vkeys, kv, issued, secretOf, revoked, disabledAt,
      verified, reqs, lastResp>>
routeVars == <<model_routes, provider_keys, calls, lastDone, lastChat>>
chatVars ==
    <<cache_enabled, llm_cache, chats, finished, usage_records,
      provider_health, lastHealth, validity, evaluated>>
vars == <<envVars, rateVars, authVars, routeVars, chatVars>>

-----------------------------------------------------------------------------
(* Bounds of the model *)

\* request tasks that may be inside the rate gate at the same time
NumTasks == 2
\* gate checks started in one behaviour
MaxChecks == 3
\* the token counts the cost calculator is applied to, 0..MaxTokens
MaxTokens == 3
\* the instants at which session tokens are generated, 0..MaxIssued
MaxIssued == 1
\* the length of resource names and secrets
MaxText == 2
\* distinct values of the sub-second microsecond clock, 0..MaxMicros
MaxMicros == 1
\* HTTP requests served in one behaviour of the authenticator
MaxRequests == 2
\* API keys generated in one behaviour
MaxKeys == 2
MaxModels == 2
\* the largest usage.total_tokens of one completion
MaxUsage == 2
\* calls recorded for one health entry between two resets
MaxCount == 5
\* the largest latency of a call, in milliseconds
MaxLatency == 1
\* chat completion requests in one behaviour
MaxChats == 3
\* messages in the list of one chat completion request
MaxMessages == 1
\* the largest budget and spend of a key
MaxBudget == 2
\* the last instant of the clock is_valid reads
MaxClock == 2

(* Constants of the program *)

\* RateLimiter::new, window_size_seconds
WindowSize == 60
\* the buffer added to the window for the sorted set's EXPIRE
ExpireBuffer == 10

None == {}
Some(v) == {v}
IsSome(o) == o # {}
Unwrap(o) == CHOOSE v \in o : TRUE
Max(a, b) == IF a >= b THEN a ELSE b
\* the one element of a singleton set
Eval(S) == CHOOSE v \in S : TRUE

Micros == 0..MaxMicros
Dims == {"requests", "tokens"}

\* The instants at which the clock is observed: the start of the run, the
\* last second of the window that starts there, the first second after it,
\* and the second at which a sorted set written at the start expires.
Instants == {0, WindowSize - 1, WindowSize, WindowSize + ExpireBuffer}

\* The API keys of the relational store that the rate gate is exercised
\* with, and their limits (VirtualKey.rate_limit_rpm / rate_limit_tpm).
GateKeys == {"k1", "k2", "k3", "k4"}
KeyLimits ==
    [k \in GateKeys |->
        CASE k = "k1" -> [rate_limit_rpm |-> Some(2), rate_limit_tpm |-> None]
          [] k = "k2" -> [rate_limit_rpm |-> Some(1), rate_limit_tpm |-> Some(2)]
          [] k = "k4" -> [rate_limit_rpm |-> None, rate_limit_tpm |-> Some(2)]
          [] OTHER    -> [rate_limit_rpm |-> None, rate_limit_tpm |-> None]]

-----------------------------------------------------------------------------
(* The counter store: Redis sorted sets.  A member is the string the code   *)
(* formats, "{now}:{micros}" (i = 0) or "{now}:{micros}:{i}"; its score is  *)
(* the `now` it was added with, which is the member's own first field.      *)

Member(ts, us, i) == [ts |-> ts, us |-> us, i |-> i]

EmptyZSet == [members |-> {}, expireAt |-> None]

\* A key whose time to live has run out is gone.
Live(z, clock) ==
    IF IsSome(z.expireAt) /\ clock >= Unwrap(z.expireAt) THEN {} ELSE z.members

\* a ZREMRANGEBYSCORE whose upper end is exclusive: key -inf (max
zrembyscore_exclusive(members, max) == {m \in members : ~(m.ts < max)}

\* ZREMRANGEBYSCORE key -inf max
zrembyscore(members, max) == {m \in members : ~(m.ts <= max)}

\* ZCOUNT key min +inf
zcount(members, min) == Cardinality({m \in members : m.ts >= min})

\* ZADD that adds nothing
zadd_nothing(members, m) == members

\* ZADD key score member: a member that is already in the set stays one entry
zadd(members, m) == members \cup {m}

\* RateLimiter::check_and_increment_counter: the pipeline (evict, count, add,
\* expire) as one unit, then the admission arithmetic.  `us` is the value
\* timestamp_subsec_micros() returned while the pipeline was built, `clock`
\* the time the store executes it.
check_and_increment_counter(z, limit, t, window_start, increment, us, clock) ==
    LET live          == Live(z, clock)
        evicted       == zrembyscore(live, window_start)
        current_count == zcount(evicted, window_start)
        added         == zadd(evicted, Member(t, us, 0))
        allowed       == ~(current_count + increment > limit)
        more          == IF allowed /\ increment > 1
                         THEN {Member(t, us, i) : i \in 1..(increment - 1)}
                         ELSE {}
    IN  [allowed   |-> allowed,
         remaining |-> IF allowed
                       THEN Some(Max(0, limit - (current_count + increment)))
                       ELSE Some(Max(0, limit - current_count)),
         reset_at  |-> t + WindowSize,
         current   |-> current_count,
         zset      |-> [members  |-> added \cup more,
                        expireAt |-> Some(clock + WindowSize + ExpireBuffer)]]

\* the CounterStatus of a dimension that has no limit
NoLimitStatus(t) ==
    [allowed |-> TRUE, remaining |-> None, reset_at |-> t + WindowSize]

\* RateLimiter::check_and_increment, from the two CounterStatus values on
CombineStatus(rs, ts, t) ==
    IF ~rs.allowed \/ ~ts.allowed
    THEN [limited            |-> TRUE,
          requests_remaining |-> rs.remaining,
          tokens_remaining   |-> ts.remaining,
          reset_at           |-> Some(Max(rs.reset_at, ts.reset_at)),
          retry_after        |-> Some(Max(rs.reset_at, ts.reset_at) - t)]
    ELSE [limited            |-> FALSE,
          requests_remaining |-> rs.remaining,
          tokens_remaining   |-> ts.remaining,
          reset_at           |-> Some(rs.reset_at),
          retry_after        |-> None]

\* What check_and_increment returns without touching the store
OpenStatus ==
    [limited |-> FALSE, requests_remaining |-> None, tokens_remaining |-> None,
     reset_at |-> None, retry_after |-> None]


-----------------------------------------------------------------------------
(* The rate gate: auth/middleware.rs enforce_rate_limit.  Up to NumTasks    *)
(* request tasks are inside it at once; a task suspends at each round trip *)
(* to the counter store, so the pipelines of concurrent checks interleave. *)

\* the increment of the requests dimension
RequestIncrement == 1
\* the `tokens` argument of the pre-flight check
PreflightTokens == 1

\* (StatusCode, String) as a response: the status line and a text body
ErrResponse(status) == [status |-> status, headers |-> {"content-type"}]

\* The header map enforce_rate_limit fills in for a limited status
LimitedHeaders(status) ==
    (IF IsSome(status.reset_at) THEN {"X-RateLimit-Reset"} ELSE {})
    \cup (IF IsSome(status.retry_after) THEN {"Retry-After"} ELSE {})
    \cup (IF IsSome(status.requests_remaining)
          THEN {"X-RateLimit-Remaining-Requests"} ELSE {})
    \cup (IF IsSome(status.tokens_remaining)
          THEN {"X-RateLimit-Remaining-Tokens"} ELSE {})

\* The response of a request the gate rejects: the header map is filled in
\* and dropped, the error returned is the pair (429, "Rate limit exceeded").
RejectResponse(status) == ErrResponse(429)

\* The outcome of one gate check.  outcome "next" is next.run(request): the request
\* is admitted and goes on to the handler.
GateEntry(k, t, via, outcome, status, response) ==
    [key |-> k, at |-> t, via |-> via, outcome |-> outcome,
     status |-> status, response |-> response]

\* A gate check has ended with entry e.
Ended(e) ==
    /\ lastGate' = Some(e)
    /\ admitted' = IF e.via = "store" /\ e.outcome = "next"
                   THEN admitted (+) SetToBag({<<e.key, e.at>>})
                   ELSE admitted

\* The bag gate without task r, and with task r replaced by q
Without(r) == gate (-) SetToBag({r})
Replaced(r, q) == (gate (-) SetToBag({r})) (+) SetToBag({q})

\* the end of enforce_rate_limit, from the RateLimitStatus on
Conclude(r, t, status) ==
    /\ gate' = Without(r)
    /\ Ended(IF status.limited
             THEN GateEntry(r.key, t, "store", "rejected", Some(status),
                            Some(RejectResponse(status)))
             ELSE GateEntry(r.key, t, "store", "next", Some(status), None))

\* A request authenticated by key k enters the gate: the key is fetched from
\* the relational store (the task's first suspension).  A key without limits
\* and a gate without a store connection pass the request on at once.
GateEnter(k) ==
    /\ BagCardinality(gate) < NumTasks
    /\ started < MaxChecks
    /\ started' = started + 1
    /\ LET lim == KeyLimits[k] IN
       IF ~IsSome(lim.rate_limit_rpm) /\ ~IsSome(lim.rate_limit_tpm)
       THEN /\ Ended(GateEntry(k, now, "nolimits", "next", None, None))
            /\ UNCHANGED gate
       ELSE IF ~redisUp
       THEN /\ Ended(GateEntry(k, now, "noredis", "next", Some(OpenStatus),
                            None))
            /\ UNCHANGED gate
       ELSE /\ gate' = gate (+) SetToBag({
                  [pc  |-> IF IsSome(lim.rate_limit_rpm)
                           THEN "requests" ELSE "tokens",
                   key |-> k, t |-> None, rs |-> None]})
            /\ UNCHANGED <<admitted, lastGate>>
    /\ UNCHANGED <<now, redisUp, zsets, billed, authVars, chatVars, routeVars>>

\* the pipeline fails: check_and_increment returns RateLimitError, which
\* enforce_rate_limit maps to 500 "Rate limit check failed"
PipelineFails(r, t) ==
    /\ gate' = Without(r)
    /\ Ended(GateEntry(r.key, t, "storeerr", "error", None,
                       Some(ErrResponse(500))))
    /\ UNCHANGED <<now, redisUp, zsets, started, billed, authVars, chatVars,
                   routeVars>>

\* check_and_increment reads the clock once, before its first round trip; a
\* later round trip of the same check uses the value read then.
CheckTime(r) == IF IsSome(r.t) THEN Unwrap(r.t) ELSE now

\* The values timestamp_subsec_micros() may return while a member for second
\* t is built.  The value is only ever compared with those of the members
\* already scored t, so it is one of those or the first value not among them.
MicrosFor(members, t) ==
    LET used == {m.us : m \in {x \in members : x.ts = t}}
        free == Micros \ used
    IN  used \cup (IF free = {} THEN {}
                   ELSE {CHOOSE u \in free : \A v \in free : u <= v})

\* the round trip of the requests dimension
GateRequests(r) ==
    /\ r.pc = "requests"
    /\ \/ PipelineFails(r, CheckTime(r))
       \/ \E us \in MicrosFor(zsets[<<r.key, "requests">>].members,
                              CheckTime(r)) :
            LET k   == r.key
                t   == CheckTime(r)
                lim == KeyLimits[k]
                rs  == check_and_increment_counter(
                          zsets[<<k, "requests">>], Unwrap(lim.rate_limit_rpm),
                          t, t - WindowSize, RequestIncrement, us, now)
            IN  /\ zsets' = [zsets EXCEPT ![<<k, "requests">>] = rs.zset]
                /\ IF IsSome(lim.rate_limit_tpm)
                   THEN /\ gate' = Replaced(r, [r EXCEPT !.pc = "tokens",
                                                         !.t = Some(t),
                                                         !.rs = Some(
                                                 [allowed   |-> rs.allowed,
                                                  remaining |-> rs.remaining,
                                                  reset_at  |-> rs.reset_at])])
                        /\ UNCHANGED <<admitted, lastGate>>
                   ELSE Conclude(r, t, CombineStatus(rs, NoLimitStatus(t), t))
                /\ UNCHANGED <<now, redisUp, started, billed, authVars, chatVars,
                               routeVars>>

\* the round trip of the tokens dimension
GateTokens(r) ==
    /\ r.pc = "tokens"
    /\ \/ PipelineFails(r, CheckTime(r))
       \/ \E us \in MicrosFor(zsets[<<r.key, "tokens">>].members,
                              CheckTime(r)) :
            LET k   == r.key
                t   == CheckTime(r)
                lim == KeyLimits[k]
                rs  == IF IsSome(r.rs) THEN Unwrap(r.rs) ELSE NoLimitStatus(t)
                ts  == check_and_increment_counter(
                          zsets[<<k, "tokens">>], Unwrap(lim.rate_limit_tpm),
                          t, t - WindowSize, PreflightTokens, us, now)
            IN  /\ zsets' = [zsets EXCEPT ![<<k, "tokens">>] = ts.zset]
                /\ Conclude(r, t, CombineStatus(rs, ts, t))
                /\ UNCHANGED <<now, redisUp, started, billed, authVars, chatVars,
                               routeVars>>

\* the usage.total_tokens a provider may report for a completion
Usage == 1..MaxUsage

\* the checks of key k the counter store admitted, and the completions
\* served to them so far
AdmittedTo(k) ==
    BagCardinality([e \in {x \in BagToSet(admitted) : x[1] = k} |->
                       admitted[e]])
ServedTo(k) ==
    BagCardinality([c \in {x \in BagToSet(billed) : x.key = k} |->
                       billed[c]])

\* main.rs chat_completions, the non-streaming path of a request the gate
\* admitted for key k: the provider answers with total_tokens in its usage
\* block, the usage is recorded and the response returned.  The handler
\* reads the counters (get_status) and writes none.  The completions of a
\* key without a tokens limit change nothing that is followed here.
Complete(k, total_tokens) ==
    /\ IsSome(KeyLimits[k].rate_limit_tpm)
    /\ ServedTo(k) < AdmittedTo(k)
    /\ billed' = billed (+) SetToBag({[key |-> k, at |-> now,
                                       total_tokens |-> total_tokens]})
    /\ UNCHANGED <<now, redisUp, zsets, gate, started, admitted, lastGate,
                   authVars, chatVars, routeVars>>

\* time passes
Tick ==
    /\ \E t \in Instants : t > now /\ now' = t
    /\ UNCHANGED <<redisUp, rateVars, chatVars, authVars, routeVars>>

-----------------------------------------------------------------------------
(* main.rs and provider_config.rs: the route table at startup.  A string is *)
(* a sequence of characters, of which " " is white space.                   *)

\* the keys of AppState.providers the model follows
providers == {"openai", "azure"}

\* provider_config::{openai, azure}::PRIMARY_MODELS, their first entries
PRIMARY_MODELS ==
    [openai |-> <<"gpt-5", "gpt-5-mini", "gpt-5-nano">>,
     azure  |-> <<"azure-gpt-4o", "azure-gpt-4o-mini", "azure-gpt-4-turbo">>]

\* provider_config::get_primary_models
get_primary_models(provider) ==
    IF provider \in DOMAIN PRIMARY_MODELS
    THEN SubSeq(PRIMARY_MODELS[provider], 1, MaxModels)
    ELSE <<>>

Range(s) == {s[i] : i \in DOMAIN s}
Models == UNION {Range(get_primary_models(p)) : p \in providers}

\* the provider ids a request can name: the known ones and one unknown
ProviderIds == providers \cup {"nope"}

\* a ModelRoute whose target is the deployment of the provider, not the model
ModelRouteToDeployment(provider, target_model, api_key) ==
    [provider |-> provider, target_model |-> <<provider, "deployment">>,
     api_key |-> api_key]

\* struct ModelRoute
ModelRoute(provider, target_model, api_key) ==
    [provider |-> provider, target_model |-> target_model,
     api_key |-> api_key]

\* Config: the provider keys of the environment
EnvKeys == [openai |-> Some(<<"k0">>), azure |-> None]

\* main, with the key of the environment preferred
model_routes_env_first(db_provider_keys, config) ==
    [m \in Models |->
        LET p       == CHOOSE q \in providers : m \in Range(get_primary_models(q))
            api_key == IF IsSome(config[p])
                       THEN config[p] ELSE db_provider_keys[p]
        IN  {ModelRoute(p, m, k) : k \in api_key}]

\* main: the routes built at startup from the provider keys loaded from the
\* database and those of the configuration, db_provider_keys.get(p).or(...)
model_routes_of(db_provider_keys, config) ==
    [m \in Models |->
        LET p       == CHOOSE q \in providers : m \in Range(get_primary_models(q))
            api_key == IF IsSome(db_provider_keys[p])
                       THEN db_provider_keys[p] ELSE config[p]
        IN  {ModelRoute(p, m, k) : k \in api_key}]

\* main: the routes built at startup, the persisted key of a provider
\* preferred over the key of the environment
StartupRoutes(db_provider_keys) == model_routes_of(db_provider_keys, EnvKeys)

\* The route table as main builds it with no key persisted and no provider
\* call made
RouteAtRest ==
    /\ provider_keys = [p \in ProviderIds |-> None]
    /\ model_routes = StartupRoutes(provider_keys)
    /\ calls = {}
    /\ lastDone = [p \in ProviderIds |-> None]
    /\ lastChat = None

\* The response cache, the chat completions, the usage table and the health
\* tracker at rest: caching off, nothing stored, no request made
ChatAtRest ==
    /\ cache_enabled = FALSE
    /\ llm_cache = <<>>
    /\ chats = <<>>
    /\ finished = 0
    /\ usage_records = <<>>
    /\ provider_health = <<>>
    /\ lastHealth = None
    /\ validity = None
    /\ evaluated = None

\* The part of the state the rate gate leaves alone: the relational store is
\* up and holds the keys of KeyLimits, which the gate only reads.
AuthAtRest ==
    /\ dbUp = TRUE
    /\ sessions = {}
    /\ vkeys = {}
    /\ kv = <<>>
    /\ issued = {}
    /\ secretOf = {}
    /\ revoked = {} /\ disabledAt = {}
    /\ verified = {}
    /\ reqs = 0
    /\ lastResp = None

InitRate ==
    /\ AuthAtRest
    /\ RouteAtRest
    /\ ChatAtRest
    /\ now = 0
    /\ redisUp \in BOOLEAN
    /\ zsets = [x \in GateKeys \X Dims |-> EmptyZSet]
    /\ gate = EmptyBag
    /\ started = 0
    /\ admitted = EmptyBag
    /\ lastGate = None
    /\ billed = EmptyBag

NextRate ==
    \/ Tick
    \/ \E k \in GateKeys : GateEnter(k)
    \/ \E r \in BagToSet(gate) : GateRequests(r)
    \/ \E r \in BagToSet(gate) : GateTokens(r)

SpecRate == InitRate /\ [][NextRate]_vars

\* The rate gate together with the completions of the requests it admits
NextBill ==
    \/ NextRate
    \/ \E k \in GateKeys, total_tokens \in Usage : Complete(k, total_tokens)

SpecBill == InitRate /\ [][NextBill]_vars

-----------------------------------------------------------------------------
(* Properties of the rate gate, checked under SpecRate *)

\* the number of checks of key k the limiter admitted with a time in the
\* 60-second window that starts at w
AdmittedIn(k, w) ==
    LET hits == {e \in BagToSet(admitted) :
                    e[1] = k /\ e[2] >= w /\ e[2] < w + WindowSize}
        RECURSIVE Sum(_)
        Sum(S) == IF S = {} THEN 0
                  ELSE LET e == CHOOSE x \in S : TRUE
                       IN  CopiesIn(e, admitted) + Sum(S \ {e})
    IN  Sum(hits)

\* C1: for a key whose requests-per-minute limit is N, the number of checks
\* admitted within any 60-second window never exceeds N, whatever the
\* interleaving of the concurrent checks.
C1_AdmittedWithinLimit ==
    \A k \in GateKeys :
        IsSome(KeyLimits[k].rate_limit_rpm) =>
            \A w \in Instants :
                AdmittedIn(k, w) <= Unwrap(KeyLimits[k].rate_limit_rpm)

\* C5: when the counter store is unavailable (the gate never connected to
\* it, or a pipeline fails) the gate admits the request: no 429, no error.
C5_StoreUnavailableAdmits ==
    \A e \in lastGate :
        e.via \in {"noredis", "storeerr"} =>
            e.outcome = "next" /\ e.response = None

\* C10: every request the gate rejects is answered 429 with a Retry-After
\* header and an X-RateLimit-Reset header.
C10_RejectionCarriesHeaders ==
    \A e \in lastGate :
        e.outcome = "rejected" =>
            \A resp \in e.response :
                /\ resp.status = 429
                /\ {"Retry-After", "X-RateLimit-Reset"} \subseteq resp.headers

\* the tokens billed to key k by the completions served in the 60-second
\* window that starts at w
BilledIn(k, w) ==
    LET RECURSIVE Sum(_)
        Sum(S) == IF S = {} THEN 0
                  ELSE LET c == CHOOSE x \in S : TRUE
                       IN  c.total_tokens * CopiesIn(c, billed) + Sum(S \ {c})
    IN  Sum({c \in BagToSet(billed) :
                c.key = k /\ c.at >= w /\ c.at < w + WindowSize})

\* C12: for a key with tokens-per-minute limit M, the tokens billed to the
\* key in any 60-second window (the sum of usage.total_tokens over the
\* completions served to checks the counter store admitted) are at most M.
C12_BilledTokensWithinLimit ==
    \A k \in GateKeys :
        IsSome(KeyLimits[k].rate_limit_tpm) =>
            \A w \in Instants :
                BilledIn(k, w) <= Unwrap(KeyLimits[k].rate_limit_tpm)

\* the size of the tokens counter of key k as the store holds it
TokensCounter(k, store) == Cardinality(Live(store[<<k, "tokens">>], now))

\* C13: a successful non-streaming completion for a key with a
\* tokens-per-minute limit makes the key's tokens counter grow by the
\* total_tokens of the response's usage block.
C13_CompletionDebitsTokens ==
    [][ \A c \in BagToSet(billed') :
          ( /\ CopiesIn(c, billed') > CopiesIn(c, billed)
            /\ IsSome(KeyLimits[c.key].rate_limit_tpm) )
          => TokensCounter(c.key, zsets') =
                TokensCounter(c.key, zsets) + c.total_tokens ]_vars

\* the entries of dimension d of key k that the store holds and that are
\* scored later than t - 60
RecentCount(k, d, t) ==
    Cardinality({m \in Live(zsets[<<k, d>>], now) : m.ts > t - WindowSize})

\* the limit of key k in dimension d
LimitOf(k, d) ==
    IF d = "requests" THEN Unwrap(KeyLimits[k].rate_limit_rpm)
    ELSE Unwrap(KeyLimits[k].rate_limit_tpm)

\* the round trip task r is about to make finds room in its dimension, going
\* by the entries scored within the 60 seconds before the check's time alone
RoomInWindow(r) ==
    RecentCount(r.key, r.pc, CheckTime(r)) + 1 <= LimitOf(r.key, r.pc)

\* C11: a gate check at time t counts only the entries scored later than
\* t - 60: each round trip allows its dimension exactly when the entries
\* scored later than t - 60, plus one, are within the limit, so an entry
\* scored 60 s or more before the check never causes its rejection.
C11_OnlyWindowEntriesCount ==
    [][ \A r \in BagToSet(gate) :
          ( /\ CopiesIn(r, gate') < CopiesIn(r, gate)
            /\ \A e \in lastGate' : e.via # "storeerr" )
          => IF r.pc = "requests" /\ IsSome(KeyLimits[r.key].rate_limit_tpm)
             THEN \E q \in BagToSet(gate') :
                     /\ q.pc = "tokens" /\ q.key = r.key
                     /\ q.t = Some(CheckTime(r))
                     /\ Unwrap(q.rs).allowed = RoomInWindow(r)
             ELSE \E e \in lastGate' :
                     /\ e.key = r.key /\ e.at = CheckTime(r)
                     /\ Unwrap(e.status).limited =
                           ~( /\ \A rs \in r.rs : rs.allowed
                              /\ RoomInWindow(r) ) ]_vars

\* C11, reached: a key with limit 2 has two checks admitted at time 0 and a
\* third admitted exactly 60 s later
C11_AdmittedAfterWindow ==
    \E e \in lastGate :
        /\ e.key = "k1" /\ e.at = WindowSize /\ e.outcome = "next"
        /\ CopiesIn(<<"k1", 0>>, admitted) >= 2

-----------------------------------------------------------------------------
(* The authenticator's data.  Text (a Rust String) is a sequence of         *)
(* one-character strings where its characters matter.                       *)

\* the users table; registration gives every user the role "user"
UserIds == {"u1", "u2"}
UserRole == [u \in UserIds |-> "user"]
UserEmail == [u \in UserIds |-> <<u, "@example.com">>]
\* User::find_by_id
find_user_by_id(user_id) ==
    IF user_id \in UserIds
    THEN Some([id |-> user_id, role |-> UserRole[user_id]])
    ELSE None

\* config.jwt_secret, and a secret the gateway does not hold
JwtSecret == "jwt_secret"
OtherSecret == "not_the_jwt_secret"
\* config.jwt_expiry_hours, its default, and Duration::hours of it in seconds
jwt_expiry_hours == 168
JwtExpiry == jwt_expiry_hours * 3600
\* jsonwebtoken's Validation::default(): leeway of 60 seconds on exp
Leeway == 60

\* jwt::generate_token: the claims, signed with `secret`
generate_token(user_id, email, role, secret, expiry, clock) ==
    [kind |-> "jwt", sub |-> user_id, email |-> email, role |-> role,
     exp |-> clock + expiry, iat |-> clock, signedWith |-> secret]

\* a validate_token that does not check the signature
validate_token_unsigned(token, secret, clock) ==
    IF token.kind = "jwt" /\ ~(token.exp < clock - Leeway)
    THEN Some([sub |-> token.sub, email |-> token.email, role |-> token.role,
               exp |-> token.exp, iat |-> token.iat])
    ELSE None

\* jwt::validate_token: decode with Validation::default(), which checks the
\* signature and rejects exp earlier than the clock less the leeway
validate_token(token, secret, clock) ==
    IF /\ token.kind = "jwt"
       /\ token.signedWith = secret
       /\ ~(token.exp < clock - Leeway)
    THEN Some([sub |-> token.sub, email |-> token.email, role |-> token.role,
               exp |-> token.exp, iat |-> token.iat])
    ELSE None

\* jwt::hash_token: a digest of the token, its image under an injection
hash_token(token) == <<"hash", token>>

\* a bearer that is plain text
Text(chars) == [kind |-> "text", chars |-> chars]

\* keys::generate_virtual_key: "sk-" and the base64 of 32 random bytes, 44
\* characters; r stands for the outcome of the random draw
EncodedLen == 44
generate_virtual_key(r) == <<"s", "k", "-">> \o [i \in 1..EncodedLen |-> r]

\* str::starts_with("sk-")
starts_with_sk(chars) == Len(chars) >= 3 /\ SubSeq(chars, 1, 3) = <<"s", "k", "-">>

\* the length of the prefix get_key_prefix keeps
PrefixLen == 12

\* a get_key_prefix that keeps the whole key
get_key_prefix_whole(key) == key

\* keys::get_key_prefix: the first 12 characters of the key
get_key_prefix(key) ==
    IF Len(key) >= PrefixLen THEN SubSeq(key, 1, PrefixLen) ELSE key

\* keys::create_lookup_hash: the SHA256 digest in hex.  A digest is modelled
\* as the image of its input under an injection that nothing inverts.
create_lookup_hash(key) == <<"sha256:">> \o key

\* keys::hash_virtual_key: bcrypt, cost 10
hash_virtual_key(key) == <<"$2b$10$">> \o key

\* the hash require_auth verifies against when no record is found; it is no
\* bcrypt hash of anything
DummyHash == <<"$2b$12$dummy.hash.for.timing.attack.prevention.only">>

\* keys::verify_virtual_key(..).unwrap_or(false)
verify_virtual_key(key, hash) ==
    /\ Len(hash) >= 1
    /\ hash[1] = "$2b$10$"
    /\ SubSeq(hash, 2, Len(hash)) = key

\* the characters of a bcrypt hash after its cost, 22 of salt and 31 of
\* digest, and those of the dummy hash after "$2b$12$"
BcryptBody == 53
DummyBody == 44

\* bcrypt::verify, split_hash: the cost of a hash with a known version, a
\* cost and BcryptBody characters after it; InvalidHash otherwise
split_hash(hash) ==
    IF hash = DummyHash
    THEN IF DummyBody = BcryptBody THEN Some(12) ELSE None
    ELSE IF Len(hash) >= 1 /\ hash[1] = "$2b$10$" THEN Some(10) ELSE None

\* bcrypt::verify: the rounds of key expansion it runs before it answers,
\* 2^cost, or none when split_hash fails
verify_rounds(hash) ==
    IF split_hash(hash) = None THEN 0 ELSE 2 ^ Unwrap(split_hash(hash))

\* the outcomes of the random draws of generate_virtual_key, in the order in
\* which the model uses them: two draws never give the same 32 bytes
Draws == <<"A", "B", "C", "D">>

\* config.master_key, which starts with "sk-"
MasterKey == Text(<<"s", "k", "-", "m", "a", "s", "t", "e", "r", "1">>)

-----------------------------------------------------------------------------
(* models/virtual_key.rs.  The created_at column, which the gateway writes  *)
(* once and reads nowhere, is left out of the rows.                         *)

VirtualKeyFields ==
    {"id", "key_hash", "key_lookup_hash", "key_prefix", "user_id", "name",
     "max_budget", "current_spend", "rate_limit_rpm", "rate_limit_tpm",
     "allowed_models", "expires_at", "blocked", "last_used_at"}

\* VirtualKey::create that charges the key on creation
VirtualKeyCreateCharged(id, key_hash, key_lookup_hash, key_prefix, user_id, req) ==
    [id |-> id, key_hash |-> key_hash,
     key_lookup_hash |-> Some(key_lookup_hash), key_prefix |-> key_prefix,
     user_id |-> user_id, name |-> req.name, max_budget |-> req.max_budget,
     current_spend |-> 1, rate_limit_rpm |-> req.rate_limit_rpm,
     rate_limit_tpm |-> req.rate_limit_tpm,
     allowed_models |-> req.allowed_models, expires_at |-> req.expires_at,
     blocked |-> FALSE, last_used_at |-> None]

\* VirtualKey::create: the row the INSERT returns
VirtualKeyCreate(id, key_hash, key_lookup_hash, key_prefix, user_id, req) ==
    [id |-> id, key_hash |-> key_hash,
     key_lookup_hash |-> Some(key_lookup_hash), key_prefix |-> key_prefix,
     user_id |-> user_id, name |-> req.name, max_budget |-> req.max_budget,
     current_spend |-> 0, rate_limit_rpm |-> req.rate_limit_rpm,
     rate_limit_tpm |-> req.rate_limit_tpm,
     allowed_models |-> req.allowed_models, expires_at |-> req.expires_at,
     blocked |-> FALSE, last_used_at |-> None]

is_over_budget(k) ==
    IF IsSome(k.max_budget) THEN k.current_spend >= Unwrap(k.max_budget)
    ELSE FALSE

is_expired(k, clock) ==
    IF IsSome(k.expires_at) THEN Unwrap(k.expires_at) < clock ELSE FALSE

\* is_valid that does not look at the blocked flag
is_valid_blocked_too(k, clock) == ~is_over_budget(k) /\ ~is_expired(k, clock)

\* VirtualKey::is_valid
is_valid(k, clock) == ~k.blocked /\ ~is_over_budget(k) /\ ~is_expired(k, clock)

\* VirtualKey::find_by_lookup_hash, find_by_id, find_by_user
find_by_lookup_hash(table, lookup_hash) ==
    {k \in table : k.key_lookup_hash = Some(lookup_hash)}
find_by_id(table, key_id) == {k \in table : k.id = key_id}
find_by_user(table, user_id) == {k \in table : k.user_id = Some(user_id)}

\* COALESCE($n, column)
Coalesce(new, old) == IF IsSome(new) THEN new ELSE old

\* VirtualKey::update: the table after the UPDATE statement
VirtualKeyUpdate(table, key_id, upd) ==
    {IF k.id = key_id
     THEN [k EXCEPT !.name = Coalesce(upd.name, @),
                    !.max_budget = Coalesce(upd.max_budget, @),
                    !.rate_limit_rpm = Coalesce(upd.rate_limit_rpm, @),
                    !.rate_limit_tpm = Coalesce(upd.rate_limit_tpm, @),
                    !.allowed_models = Coalesce(upd.allowed_models, @),
                    !.blocked = IF IsSome(upd.blocked)
                                THEN Unwrap(upd.blocked) ELSE @]
     ELSE k : k \in table}

\* The columns VirtualKey::update's RETURNING clause lists
UpdateReturning == VirtualKeyFields \ {"key_lookup_hash"}

\* sqlx's derived FromRow: every field of the struct is read from the row by
\* name; a column the row lacks is an error
FromRow(columns) == VirtualKeyFields \subseteq columns

\* VirtualKey::update_last_used, VirtualKey::delete
update_last_used(table, key_id, clock) ==
    {IF k.id = key_id THEN [k EXCEPT !.last_used_at = Some(clock)] ELSE k :
        k \in table}
VirtualKeyDelete(table, key_id) == {k \in table : k.id # key_id}

\* serde_json::to_string(&VirtualKey): the fields marked skip_serializing
\* are left out
SkipSerializing == {"key_hash", "key_lookup_hash"}
Serialize(k) == [f \in VirtualKeyFields \ SkipSerializing |-> k[f]]

\* serde_json::from_str::<VirtualKey>: a missing Option field reads as None,
\* any other missing field is an error
OptionFields ==
    {"key_lookup_hash", "user_id", "name", "max_budget", "rate_limit_rpm",
     "rate_limit_tpm", "allowed_models", "expires_at", "last_used_at"}
Deserialize(json) ==
    IF \A f \in VirtualKeyFields \ OptionFields : f \in DOMAIN json
    THEN [ok |-> TRUE,
          key |-> [f \in VirtualKeyFields |->
                      IF f \in DOMAIN json THEN json[f] ELSE None]]
    ELSE [ok |-> FALSE]

-----------------------------------------------------------------------------
(* auth/middleware.rs: the cache of key records and the two authenticators. *)
(* A request runs with a fault: "none", or "db" (the queries it sends to    *)
(* the relational store fail), or "cache" (its commands to the cache store  *)
(* fail).  Only require_auth sends commands to the cache store, and only    *)
(* when the gateway is connected to one.                                    *)

DbFaults == {"none", "db"}
Faults == DbFaults \cup (IF redisUp THEN {"cache"} ELSE {})

\* the TTL of both cache entries, in seconds
KeyCacheTtl == 300
VerifiedTtl == 300

\* GET and SETEX of the cache store
cache_get(store, key, clock) ==
    IF key \in DOMAIN store /\ clock < store[key].expireAt
    THEN Some(store[key].data) ELSE None
set_ex(store, key, data, ttl, clock) ==
    [k \in DOMAIN store \cup {key} |->
        IF k = key THEN [data |-> data, expireAt |-> clock + ttl]
        ELSE store[k]]

\* middleware::get_cached_key: Err, Ok(None) or Ok(Some(key))
get_cached_key(store, redis_key, fault, clock) ==
    IF fault = "cache" THEN [tag |-> "Err"]
    ELSE LET cached == cache_get(store, redis_key, clock) IN
         IF cached = None THEN [tag |-> "None"]
         ELSE LET d == Deserialize(Unwrap(cached)) IN
              IF d.ok THEN [tag |-> "Some", key |-> d.key]
              ELSE [tag |-> "Err"]

\* middleware::cache_key; the callers ignore its error
cache_key(store, redis_key, k, ttl, fault, clock) ==
    IF fault = "cache" THEN store
    ELSE set_ex(store, redis_key, Serialize(k), ttl, clock)

\* AuthUser and AuthType
JwtUser(user) ==
    [user_id |-> user.id, role |-> user.role, auth_type |-> [kind |-> "JWT"]]
KeyUser(user_id, role, key_id) ==
    [user_id |-> user_id, role |-> role,
     auth_type |-> [kind |-> "VirtualKey", key_id |-> key_id]]
\* Uuid::nil()
NilUser == "nil"

\* What a middleware hands on: Err((status, message)), or the AuthUser it
\* put into the request, with the stores as it leaves them, the number
\* of calls of verify_virtual_key it made and the rounds of bcrypt they ran.
Deny(status, store, n) ==
    [ok |-> FALSE, status |-> status, auth_user |-> None, kv |-> store,
     vkeys |-> vkeys, verifies |-> n, rounds |-> 0, cachedVerified |-> FALSE]
Admit(auth_user, store, table, n, cached) ==
    [ok |-> TRUE, status |-> 200, auth_user |-> Some(auth_user), kv |-> store,
     vkeys |-> table, verifies |-> n, rounds |-> 0, cachedVerified |-> cached]

\* the JWT branch shared by both middlewares, from the claims on
JwtBranch(claims, fault) ==
    IF fault = "db" THEN Deny(500, kv, 0)
    ELSE LET user == find_user_by_id(claims.sub) IN
         IF user = None THEN Deny(401, kv, 0)
         ELSE Admit(JwtUser(Unwrap(user)), kv, vkeys, 0, FALSE)

\* middleware::require_jwt
require_jwt(header, fault) ==
    IF header = None THEN Deny(401, kv, 0)
    ELSE LET claims == validate_token(Unwrap(header), JwtSecret, now) IN
         IF claims = None THEN Deny(401, kv, 0)
         ELSE IF ~dbUp THEN Deny(500, kv, 0)
         ELSE JwtBranch(Unwrap(claims), fault)

\* require_auth, the verified-token fast path, from the cached key on
FastPath(cached_key, fault) ==
    IF IsSome(cached_key.user_id)
    THEN IF fault = "db" THEN Deny(500, kv, 0)
         ELSE LET user == find_user_by_id(Unwrap(cached_key.user_id)) IN
              IF user = None THEN Deny(401, kv, 0)
              ELSE Admit(KeyUser(Unwrap(user).id, Unwrap(user).role,
                                 cached_key.id), kv, vkeys, 0, FALSE)
    ELSE Admit(KeyUser(NilUser, "user", cached_key.id), kv, vkeys, 0, FALSE)

\* require_auth, the slow path, from the record found on: bcrypt, the
\* verified-token cache, the validity check, the owner, last_used_at
SlowPath(chars, virtual_key, store, verified_token_key, fault) ==
    IF ~verify_virtual_key(chars, virtual_key.key_hash)
    THEN Deny(401, store, 1)
    ELSE
    LET store2 == IF redisUp
                  THEN cache_key(store, verified_token_key, virtual_key,
                                 VerifiedTtl, fault, now)
                  ELSE store
        cached == redisUp /\ fault # "cache"
        table2 == IF fault = "db" THEN vkeys
                  ELSE update_last_used(vkeys, virtual_key.id, now)
    IN  IF ~is_valid(virtual_key, now) THEN Deny(401, store2, 1)
        ELSE IF IsSome(virtual_key.user_id)
        THEN IF fault = "db" THEN Deny(500, store2, 1)
             ELSE LET user == find_user_by_id(Unwrap(virtual_key.user_id)) IN
                  IF user = None THEN Deny(401, store2, 1)
                  ELSE Admit(KeyUser(Unwrap(user).id, Unwrap(user).role,
                                     virtual_key.id), store2, table2, 1, cached)
        ELSE Admit(KeyUser(NilUser, "system", virtual_key.id), store2, table2,
                   1, cached)

\* require_auth, the record of the bearer: from the record cache; on a miss
\* from the relational store, and then cached for 5 minutes; on a cache
\* error, or with no cache store, from the relational store
RecordPath(chars, lookup_hash, rec, fault) ==
    IF rec.tag # "Some" /\ fault = "db" THEN Deny(500, kv, 0)
    ELSE LET redis_key == <<"auth:key", lookup_hash>>
             found  == IF rec.tag = "Some" THEN Some(rec.key)
                       ELSE find_by_lookup_hash(vkeys, lookup_hash)
             store1 == IF redisUp /\ rec.tag = "None" /\ IsSome(found)
                       THEN cache_key(kv, redis_key, Unwrap(found),
                                      KeyCacheTtl, fault, now)
                       ELSE kv
         IN  IF found = None
             THEN \* verify_virtual_key(token, dummy hash), result dropped
                  [Deny(401, kv, 1) EXCEPT !.rounds = verify_rounds(DummyHash)]
             ELSE Eval({[SlowPath(chars, virtual_key, store,
                                  <<"auth:verified", lookup_hash>>, fault)
                            EXCEPT !.rounds =
                                verify_rounds(virtual_key.key_hash)] :
                           virtual_key \in found, store \in {store1}})

\* require_auth, the branch of a bearer that starts with "sk-"
KeyBranch(chars, fault) ==
    LET lookup_hash        == create_lookup_hash(chars)
        verified_token_key == <<"auth:verified", lookup_hash>>
        redis_key          == <<"auth:key", lookup_hash>>
    IN  Eval({IF fast.tag = "Some" /\ is_valid(fast.key, now)
              THEN FastPath(fast.key, fault)
              ELSE RecordPath(chars, lookup_hash, rec, fault) :
                fast \in {IF redisUp
                          THEN get_cached_key(kv, verified_token_key, fault, now)
                          ELSE [tag |-> "None"]},
                rec  \in {IF redisUp
                          THEN get_cached_key(kv, redis_key, fault, now)
                          ELSE [tag |-> "Err"]}})

\* middleware::require_auth
require_auth(header, fault) ==
    IF header = None THEN Deny(401, kv, 0)
    ELSE IF ~dbUp THEN Deny(500, kv, 0)
    ELSE LET token  == Unwrap(header)
             claims == validate_token(token, JwtSecret, now)
         IN  IF IsSome(claims) THEN JwtBranch(Unwrap(claims), fault)
             ELSE IF token.kind = "text" /\ starts_with_sk(token.chars)
             THEN KeyBranch(token.chars, fault)
             ELSE Deny(401, kv, 0)

-----------------------------------------------------------------------------
(* handlers/auth.rs.  One step is one HTTP request: the middleware main.rs  *)
(* layers on the route and then the handler, which is given the result `a`  *)
(* of the middleware.                                                       *)

\* The Authorization headers a client can send: none, a session token the
\* gateway issued, a token signed with another secret, the secret of a
\* generated key, and the master key (an "sk-" string that is no key's
\* secret).
ForgedToken ==
    generate_token("u1", UserEmail["u1"], "user", OtherSecret, JwtExpiry, 0)
Headers ==
    {None} \cup {Some(t) : t \in issued}
           \cup {Some(Text(p[2])) : p \in secretOf}
           \cup {Some(ForgedToken), Some(MasterKey)}

\* the bodies of CreateVirtualKeyRequest and of UpdateKeyRequest
NoFields ==
    [name |-> None, max_budget |-> None, rate_limit_rpm |-> None,
     rate_limit_tpm |-> None, allowed_models |-> None, expires_at |-> None,
     blocked |-> None]
CreateRequests ==
    {NoFields, [NoFields EXCEPT !.expires_at = Some(VerifiedTtl - 1)]}
UpdateRequests == {[NoFields EXCEPT !.blocked = Some(TRUE)]}
\* the key ids a request can name: those of the keys generated so far, and
\* one that no key has
KeyIds == 1..(Cardinality(secretOf) + 1)

\* a request that passes no middleware
NoMiddleware == Admit([kind |-> "none"], kv, vkeys, 0, FALSE)

\* header carries the secret that key record k was created from
KeyOfBearer(header, k) ==
    \E p \in secretOf : header = Some(Text(p[2])) /\ k.id = p[1]

\* The record of a served request.  `pre` holds what was true of the request
\* when it arrived.
Response(op, mw, header, fault, a, status, body, target) ==
    [op |-> op, mw |-> mw, header |-> header, fault |-> fault,
     admitted |-> a.ok, auth_user |-> a.auth_user, verifies |-> a.verifies,
     rounds |-> a.rounds,
     status |-> status, body |-> body, target |-> target,
     pre |-> [revoked  |-> header # None /\ header \subseteq revoked,
              verified |-> {w.at : w \in {v \in verified :
                                              Some(v.bearer) = header}},
              valid    |-> \E k \in vkeys : /\ KeyOfBearer(header, k)
                                            /\ is_valid(k, now),
              stored   |-> {k.id : k \in vkeys},
              key      |-> find_by_id(vkeys, target)]]

\* A request has passed its middleware: it is counted and the middleware's
\* writes to the cache store take effect.
Passed(header, a) ==
    /\ reqs < MaxRequests
    /\ reqs' = reqs + 1
    /\ kv' = a.kv
    /\ verified' = IF a.cachedVerified
                   THEN {w \in verified : Some(w.bearer) # header}
                        \cup {[bearer |-> Unwrap(header), at |-> now]}
                   ELSE verified
    /\ UNCHANGED <<envVars, rateVars, chatVars, dbUp>>

\* Every request: the response is recorded, the middleware's writes to the
\* cache store take effect.
Served(op, mw, header, fault, a, status, body, target) ==
    /\ Passed(header, a)
    /\ lastResp' = Some(Response(op, mw, header, fault, a, status, body, target))
    /\ UNCHANGED routeVars

\* A request the middleware turns away
Refused(op, mw, header, fault, a, target) ==
    /\ ~a.ok
    /\ Served(op, mw, header, fault, a, a.status, {}, target)
    /\ UNCHANGED <<sessions, vkeys, issued, secretOf, revoked, disabledAt>>

\* the token and the sessions row of a login of user u at time t
LoginToken(u, t) ==
    generate_token(u, UserEmail[u], UserRole[u], JwtSecret, JwtExpiry, t)
SessionRow(u, t) ==
    [user_id |-> u, token_hash |-> hash_token(LoginToken(u, t)),
     expires_at |-> t + JwtExpiry]

\* POST /auth/login
login(u, password_ok, fault) ==
    LET token == LoginToken(u, now)
        row   == SessionRow(u, now)
        status == IF ~dbUp \/ fault = "db" THEN 500
                  ELSE IF ~password_ok THEN 401
                  \* sessions.token_hash is UNIQUE
                  ELSE IF \E s \in sessions : s.token_hash = row.token_hash
                  THEN 500
                  ELSE 200
    IN  /\ Served("login", "none", None, fault, NoMiddleware, status,
                  IF status = 200 THEN {[token |-> token]} ELSE {}, 0)
        /\ sessions' = IF status = 200 THEN sessions \cup {row} ELSE sessions
        /\ issued' = IF status = 200 THEN issued \cup {token} ELSE issued
        /\ UNCHANGED <<vkeys, secretOf, revoked, disabledAt>>

\* POST /auth/logout, behind require_jwt
logout(header, fault, a) ==
    \/ Refused("logout", "require_jwt", header, fault, a, 0)
    \/ /\ a.ok
       /\ LET user_id == Unwrap(a.auth_user).user_id IN
          \* Session::delete_by_user
          /\ sessions' = {s \in sessions : s.user_id # user_id}
          /\ revoked' = revoked \cup {t \in issued : t.sub = user_id}
       /\ Served("logout", "require_jwt", header, fault, a, 200, {}, 0)
       /\ UNCHANGED <<vkeys, issued, secretOf, disabledAt>>

\* GET /auth/me, behind require_jwt
get_current_user(header, fault, a) ==
    \/ Refused("get_current_user", "require_jwt", header, fault, a, 0)
    \/ /\ a.ok
       /\ LET user == find_user_by_id(Unwrap(a.auth_user).user_id) IN
          Served("get_current_user", "require_jwt", header, fault, a,
                 IF user = None THEN 404 ELSE 200, user, 0)
       /\ UNCHANGED <<sessions, vkeys, issued, secretOf, revoked, disabledAt>>

\* GET /auth/keys, behind require_jwt
get_user_keys(header, fault, a) ==
    \/ Refused("get_user_keys", "require_jwt", header, fault, a, 0)
    \/ /\ a.ok
       /\ Served("get_user_keys", "require_jwt", header, fault, a, 200,
                 {Serialize(k) :
                    k \in find_by_user(vkeys, Unwrap(a.auth_user).user_id)}, 0)
       /\ UNCHANGED <<sessions, vkeys, issued, secretOf, revoked, disabledAt>>

\* VirtualKeyResponse, the body of the generate response
VirtualKeyResponse(k, key, key_prefix) ==
    [id |-> k.id, key |-> key, key_prefix |-> key_prefix, name |-> k.name,
     max_budget |-> k.max_budget, current_spend |-> k.current_spend,
     rate_limit_rpm |-> k.rate_limit_rpm, rate_limit_tpm |-> k.rate_limit_tpm,
     allowed_models |-> k.allowed_models, expires_at |-> k.expires_at,
     blocked |-> k.blocked]

\* POST /auth/key/generate, behind require_auth
generate_key(header, fault, request, a) ==
    \/ Refused("generate_key", "require_auth", header, fault, a, 0)
    \/ /\ a.ok
       /\ Cardinality(secretOf) < MaxKeys
       /\ LET auth_user  == Unwrap(a.auth_user)
              id         == Cardinality(secretOf) + 1
              key        == generate_virtual_key(Draws[id])
              key_prefix == get_key_prefix(key)
              user_id    == IF auth_user.auth_type.kind = "MasterKey"
                            THEN None ELSE Some(auth_user.user_id)
              virtual_key == VirtualKeyCreate(
                                id, hash_virtual_key(key),
                                create_lookup_hash(key), key_prefix, user_id,
                                request)
          IN  IF fault = "db"
              THEN /\ Served("generate_key", "require_auth", header, fault, a,
                             500, {}, 0)
                   /\ vkeys' = a.vkeys
                   /\ UNCHANGED secretOf
              ELSE /\ Served("generate_key", "require_auth", header, fault, a,
                             200,
                             {VirtualKeyResponse(virtual_key, key, key_prefix)},
                             id)
                   /\ vkeys' = a.vkeys \cup {virtual_key}
                   /\ secretOf' = secretOf \cup {<<id, key>>}
       /\ UNCHANGED <<sessions, issued, revoked, disabledAt>>

\* GET /auth/key/info, behind require_auth
get_key_info(header, fault, key_id, a) ==
    \/ Refused("get_key_info", "require_auth", header, fault, a, key_id)
    \/ /\ a.ok
       /\ LET key == find_by_id(a.vkeys, key_id) IN
          Served("get_key_info", "require_auth", header, fault, a,
                 IF fault = "db" THEN 500 ELSE IF key = None THEN 404 ELSE 200,
                 IF fault = "db" THEN {} ELSE {Serialize(k) : k \in key},
                 key_id)
       /\ vkeys' = a.vkeys
       /\ UNCHANGED <<sessions, issued, secretOf, revoked, disabledAt>>

\* the keys generated so far that a table does not hold unblocked
Disabled(table) ==
    {p[1] : p \in secretOf} \ {k.id : k \in {x \in table : ~x.blocked}}

\* history: disabledAt once the virtual_keys table is `table`
DisabledSince(table) ==
    disabledAt \cup {<<id, now>> : id \in Disabled(table)
                                       \ {p[1] : p \in disabledAt}}

\* the ownership check of update_key and delete_key: 0 when it passes, else
\* the status of the error
OwnershipCheck(auth_user, table, key_id, fault) ==
    IF auth_user.auth_type.kind = "MasterKey" THEN 0
    ELSE IF fault = "db" THEN 500
    ELSE LET key == find_by_id(table, key_id) IN
         IF key = None THEN 404
         ELSE IF Unwrap(key).user_id # Some(auth_user.user_id) THEN 403
         ELSE 0

\* POST /auth/key/update, behind require_auth
update_key(header, fault, key_id, request, a) ==
    \/ Refused("update_key", "require_auth", header, fault, a, key_id)
    \/ /\ a.ok
       /\ LET refused == OwnershipCheck(Unwrap(a.auth_user), a.vkeys, key_id,
                                        fault)
              updated == VirtualKeyUpdate(a.vkeys, key_id, request)
          IN  IF refused # 0
              THEN /\ Served("update_key", "require_auth", header, fault, a,
                             refused, {}, key_id)
                   /\ vkeys' = a.vkeys
              ELSE IF fault = "db"
              THEN /\ Served("update_key", "require_auth", header, fault, a,
                             500, {}, key_id)
                   /\ vkeys' = a.vkeys
              ELSE /\ vkeys' = updated
                   /\ IF FromRow(UpdateReturning)
                      THEN Served("update_key", "require_auth", header, fault,
                                  a, 200,
                                  {Serialize(k) : k \in find_by_id(updated, key_id)},
                                  key_id)
                      ELSE Served("update_key", "require_auth", header, fault,
                                  a, 500, {}, key_id)
       /\ disabledAt' = DisabledSince(vkeys')
       /\ UNCHANGED <<sessions, issued, secretOf, revoked>>

\* DELETE /auth/key/delete, behind require_auth
delete_key(header, fault, key_id, a) ==
    \/ Refused("delete_key", "require_auth", header, fault, a, key_id)
    \/ /\ a.ok
       /\ LET refused == OwnershipCheck(Unwrap(a.auth_user), a.vkeys, key_id,
                                        fault)
          IN  IF refused # 0
              THEN /\ Served("delete_key", "require_auth", header, fault, a,
                             refused, {}, key_id)
                   /\ vkeys' = a.vkeys
              ELSE IF fault = "db"
              THEN /\ Served("delete_key", "require_auth", header, fault, a,
                             500, {}, key_id)
                   /\ vkeys' = a.vkeys
              ELSE /\ Served("delete_key", "require_auth", header, fault, a,
                             200, {}, key_id)
                   /\ vkeys' = VirtualKeyDelete(a.vkeys, key_id)
       /\ disabledAt' = DisabledSince(vkeys')
       /\ UNCHANGED <<sessions, issued, secretOf, revoked>>

\* the instants at which the authenticator observes the clock: the start of
\* the run, the last second of a cache entry written then, the second it is
\* gone and the second after
AuthInstants == {0, VerifiedTtl - 1, VerifiedTtl, VerifiedTtl + 1}

\* the cache store drops the keys whose time to live has run out
Expire(store, clock) ==
    [k \in {x \in DOMAIN store : clock < store[x].expireAt} |-> store[k]]

\* Time passes.  lastResp is the response of the step before, if that step
\* served a request.
AuthTick ==
    /\ \E t \in AuthInstants :
          /\ t > now
          /\ now' = t
          /\ kv' = Expire(kv, t)
    /\ lastResp' = None
    /\ UNCHANGED <<redisUp, rateVars, chatVars, dbUp, sessions, vkeys, issued, secretOf,
                   revoked, disabledAt, verified, reqs, routeVars>>

\* The rate gate at rest
RateAtRest ==
    /\ zsets = [x \in GateKeys \X Dims |-> EmptyZSet]
    /\ gate = EmptyBag
    /\ started = 0
    /\ admitted = EmptyBag
    /\ lastGate = None
    /\ billed = EmptyBag

\* the key a generate call of user u with request body `request` stores as
\* the id-th key
GeneratedKey(id, u, request) ==
    VirtualKeyCreate(id, hash_virtual_key(generate_virtual_key(Draws[id])),
                     create_lookup_hash(generate_virtual_key(Draws[id])),
                     get_key_prefix(generate_virtual_key(Draws[id])), u,
                     request)

\* The gateway just after every user has logged in and user u1 has generated
\* a first key, with nothing cached.
AuthStart ==
    /\ now = 0
    /\ redisUp \in BOOLEAN
    /\ dbUp \in BOOLEAN
    /\ RateAtRest
    /\ sessions = {SessionRow(u, 0) : u \in UserIds}
    /\ issued = {LoginToken(u, 0) : u \in UserIds}
    /\ vkeys = {GeneratedKey(1, Some("u1"), NoFields)}
    /\ secretOf = {<<1, generate_virtual_key(Draws[1])>>}
    /\ kv = <<>> /\ revoked = {} /\ disabledAt = {} /\ verified = {}
    /\ reqs = 0 /\ lastResp = None

InitAuth == AuthStart /\ RouteAtRest /\ ChatAtRest

\* main.rs, user_routes: the routes layered with require_jwt
user_routes(header, fault) ==
    /\ reqs < MaxRequests
    /\ \E a \in {require_jwt(header, fault)} :
          \/ logout(header, fault, a)
          \/ get_current_user(header, fault, a)
          \/ get_user_keys(header, fault, a)

\* main.rs, key_routes: the routes layered with require_auth
key_routes(header, fault) ==
    /\ reqs < MaxRequests
    /\ \E a \in {require_auth(header, fault)} :
          \/ \E r \in CreateRequests : generate_key(header, fault, r, a)
          \/ \E id \in KeyIds : get_key_info(header, fault, id, a)
          \/ \E id \in KeyIds, r \in UpdateRequests :
                update_key(header, fault, id, r, a)
          \/ \E id \in KeyIds : delete_key(header, fault, id, a)

NextAuth ==
    \/ AuthTick
    \/ \E u \in UserIds, ok \in BOOLEAN, fault \in DbFaults : login(u, ok, fault)
    \/ \E h \in Headers, fault \in DbFaults : user_routes(h, fault)
    \/ \E h \in Headers, fault \in Faults : key_routes(h, fault)

SpecAuth == InitAuth /\ [][NextAuth]_vars

-----------------------------------------------------------------------------
(* Properties of the authenticator and of the key handlers, checked under   *)
(* SpecAuth.  lastResp holds the request served by the step that led to the *)
(* state, so `now` is the time of that request.                             *)

\* C2: once require_auth has admitted a bearer through the slow verification
\* and written the verified-token cache entry, every later request with the
\* same bearer within the 300 s of that entry (cache store reachable, key
\* still valid) is admitted without a call of verify_virtual_key.
C2_VerifiedBearerSkipsSlowPath ==
    \A r \in lastResp :
        ( /\ r.mw = "require_auth"
          /\ redisUp /\ dbUp /\ r.fault = "none"
          /\ r.pre.verified # {}
          /\ \A t \in r.pre.verified : now < t + VerifiedTtl
          /\ r.pre.valid )
        => r.admitted /\ r.verifies = 0

\* C4: after a logout of a user has succeeded, every session token issued to
\* that user before it is rejected with 401 by require_jwt and by
\* require_auth.
C4_LoggedOutTokensRejected ==
    \A r \in lastResp :
        (r.mw \in {"require_jwt", "require_auth"} /\ r.pre.revoked)
        => ~r.admitted /\ r.status = 401

\* header is a session token the gateway issued that has not expired
ValidSessionToken(header) ==
    \E t \in issued : header = Some(t) /\ t.exp + Leeway >= now

\* header is the secret from which a key record stored when request r
\* arrived was created
StoredSecret(r) ==
    \E p \in secretOf : r.header = Some(Text(p[2])) /\ p[1] \in r.pre.stored

\* require_auth admitted request r as the API-key principal of a key only if
\* the bearer is the secret that stored key was created from
KeyPrincipalHoldsSecret(r) ==
    (r.admitted /\ Unwrap(r.auth_user).auth_type.kind = "VirtualKey")
    => \E p \in secretOf :
          /\ r.header = Some(Text(p[2]))
          /\ p[1] = Unwrap(r.auth_user).auth_type.key_id
          /\ p[1] \in r.pre.stored

\* C9 as stated: require_auth admits a bearer as an API-key principal only
\* if it is the secret a stored key record was created from, and a bearer
\* that is neither a valid session token nor such a secret is always
\* rejected with 401.
C9_OnlyStoredSecretsElse401 ==
    \A r \in lastResp :
        r.mw = "require_auth" =>
            /\ KeyPrincipalHoldsSecret(r)
            /\ (~ValidSessionToken(r.header) /\ ~StoredSecret(r))
               => ~r.admitted /\ r.status = 401

\* C9 amended: ... and a bearer that is neither a valid session token nor
\* such a secret is never admitted: it is rejected with 401, or with 500
\* when the relational store is not available to the request.
C9_OnlyStoredSecretsElseRejected ==
    \A r \in lastResp :
        r.mw = "require_auth" =>
            /\ KeyPrincipalHoldsSecret(r)
            /\ (~ValidSessionToken(r.header) /\ ~StoredSecret(r))
               => /\ ~r.admitted
                  /\ r.status \in {401, 500}
                  /\ r.status = 500 => (~dbUp \/ r.fault = "db")

\* C9, reached: a request admitted as the API-key principal of its bearer,
\* and a request with an unknown "sk-" bearer rejected with 401
C9_KeyPrincipalAdmitted ==
    \E r \in lastResp :
        /\ r.mw = "require_auth" /\ r.admitted /\ r.verifies = 1
        /\ Unwrap(r.auth_user).auth_type.kind = "VirtualKey"

\* the fields of a response body that hold a string
TextFields == {"key", "key_prefix", "key_hash"}

\* a response body carries the character string secret in one of its fields
Discloses(body, secret) ==
    \E obj \in body : \E f \in DOMAIN obj \cap TextFields : obj[f] = secret

\* C6: the plaintext secret of a key is in the response of the generate_key
\* call that created the key and in no other response: not in a later
\* generate_key response, not in the list, info or update responses.
C6_SecretOnlyInCreatingResponse ==
    \A r \in lastResp :
        /\ \A p \in secretOf :
              Discloses(r.body, p[2])
              => /\ r.op = "generate_key" /\ r.status = 200
                 /\ r.target = p[1]
                 /\ p[1] \notin r.pre.stored
        /\ (r.op = "generate_key" /\ r.status = 200)
           => \E p \in secretOf : r.target = p[1] /\ Discloses(r.body, p[2])

\* C6, reached: after a generate_key call has created a key, a list or info
\* response that describes a stored key
C6_KeyDescribedWithoutSecret ==
    \E r \in lastResp :
        /\ Cardinality(secretOf) > 1
        /\ r.op \in {"get_user_keys", "get_key_info"}
        /\ r.status = 200
        /\ \E obj \in r.body : \E p \in secretOf :
              obj.id = p[1] /\ obj.key_prefix = get_key_prefix(p[2])

\* request r was made by an admin or by the owner of the key it addresses
AdminOrOwner(r) ==
    LET caller == Unwrap(r.auth_user)
    IN  \/ caller.role = "admin"
        \/ caller.auth_type.kind = "MasterKey"
        \/ \E k \in r.pre.key : k.user_id = Some(caller.user_id)

\* C7: the info, update and delete operations on a key K act only for an
\* admin or for the user K belongs to; any other authenticated caller gets
\* 403, learns nothing of K and leaves K as it was.
C7_KeyOperationsOnlyForOwner ==
    \A r \in lastResp :
        ( /\ r.op \in {"get_key_info", "update_key", "delete_key"}
          /\ r.admitted
          /\ r.pre.key # {}
          /\ ~AdminOrOwner(r) )
        => /\ r.status = 403
           /\ r.body = {}
           /\ find_by_id(vkeys, r.target) = r.pre.key

-----------------------------------------------------------------------------
(* handlers/provider.rs and main.rs, chat_completions.  The provider        *)
(* handlers run on a multi-threaded runtime and write the route table one   *)
(* model at a time, so a call in progress is a record of `calls` and each   *)
(* write to the table or to the provider_keys table is one step.            *)

\* str::trim
RECURSIVE trim_start(_)
trim_start(str) ==
    IF str # <<>> /\ Head(str) = " " THEN trim_start(Tail(str)) ELSE str
RECURSIVE trim_end(_)
trim_end(str) ==
    IF str # <<>> /\ str[Len(str)] = " "
    THEN trim_end(SubSeq(str, 1, Len(str) - 1)) ELSE str
trim(str) == trim_end(trim_start(str))

\* the bodies of UpdateProviderRequest
ApiKeys == {<<"k1">>, <<"k2">>, <<" ">>}
ResourceNames == {None, Some(<<"res">>), Some(<<" ">>)}
ConfigureRequests ==
    [provider_id : ProviderIds, api_key : ApiKeys,
     azure_resource_name : ResourceNames]

\* update_provider_key, the checks of the request: the status of the error,
\* or 0
ConfigureRefused(request) ==
    IF request.provider_id \notin providers THEN 404
    ELSE IF trim(request.api_key) = <<>> THEN 400
    ELSE IF request.provider_id # "azure" THEN 0
    ELSE IF request.azure_resource_name = None THEN 400
    ELSE IF trim(Unwrap(request.azure_resource_name)) = <<>> THEN 400
    ELSE 0

\* update_provider_key, api_key_to_store: "resource_name:api_key" for Azure
api_key_to_store(request) ==
    IF request.provider_id = "azure"
    THEN trim(Unwrap(request.azure_resource_name)) \o <<":">>
         \o trim(request.api_key)
    ELSE request.api_key

\* a provider call in progress: next is the position of the configure loop
\* (configured_count + 1), todo the part of keys_to_remove not yet removed;
\* found is the route table as the handler found it, and disturbed tells
\* whether another call has written the table since
Call(op, provider_id, api_key, a, todo) ==
    [id |-> reqs + 1, op |-> op, provider_id |-> provider_id,
     api_key |-> api_key, auth_type |-> Unwrap(a.auth_user).auth_type,
     next |-> 1, todo |-> todo, keys_to_remove |-> todo,
     found |-> model_routes, disturbed |-> FALSE]

\* the calls in progress other than c, after c has written the route table
Others(c) == {[d EXCEPT !.disturbed = TRUE] : d \in calls \ {c}}

\* a provider handler starts: the request has passed require_auth
Entered(header, a, call) ==
    /\ Passed(header, a)
    /\ lastResp' = None
    /\ calls' = calls \cup {call}
    /\ vkeys' = a.vkeys
    /\ UNCHANGED <<sessions, issued, secretOf, revoked, disabledAt, model_routes,
                   provider_keys, lastDone, lastChat>>

\* update_provider_key that persists the credential before it checks the
\* request
update_provider_key_stores_first(header, fault, request, a) ==
    \/ Refused("update_provider_key", "require_auth", header, fault, a, 0)
    \/ /\ a.ok
       /\ IF ConfigureRefused(request) # 0
          THEN /\ Passed(header, a)
               /\ lastResp' = Some(Response("update_provider_key",
                                  "require_auth", header, fault, a,
                                  ConfigureRefused(request), {}, 0))
               /\ provider_keys' =
                      [provider_keys EXCEPT ![request.provider_id] =
                          Some(request.api_key)]
               /\ vkeys' = a.vkeys
               /\ UNCHANGED <<sessions, issued, secretOf, revoked, disabledAt,
                              model_routes, calls, lastDone, lastChat>>
          ELSE Entered(header, a,
                       Call("configure", request.provider_id,
                            api_key_to_store(request), a, {}))

\* POST /v1/providers/configure, behind require_auth: up to the loop
update_provider_key(header, fault, request, a) ==
    \/ Refused("update_provider_key", "require_auth", header, fault, a, 0)
    \/ /\ a.ok
       /\ IF ConfigureRefused(request) # 0
          THEN /\ Served("update_provider_key", "require_auth", header, fault,
                         a, ConfigureRefused(request), {}, 0)
               /\ vkeys' = a.vkeys
               /\ UNCHANGED <<sessions, issued, secretOf, revoked, disabledAt>>
          ELSE Entered(header, a,
                       Call("configure", request.provider_id,
                            api_key_to_store(request), a, {}))

\* POST /v1/providers/delete, behind require_auth: up to the loop, with the
\* keys of the routes of the provider collected
delete_provider_key(header, fault, provider_id, a) ==
    \/ Refused("delete_provider_key", "require_auth", header, fault, a, 0)
    \/ /\ a.ok
       /\ IF provider_id = None
          THEN /\ Served("delete_provider_key", "require_auth", header, fault,
                         a, 400, {}, 0)
               /\ vkeys' = a.vkeys
               /\ UNCHANGED <<sessions, issued, secretOf, revoked, disabledAt>>
          ELSE Entered(header, a,
                       Call("delete", Unwrap(provider_id), <<>>, a,
                            {m \in Models :
                                \E r \in model_routes[m] :
                                    r.provider = Unwrap(provider_id)}))

\* a step of a provider call leaves the authenticator alone
CallStep ==
    /\ lastResp' = None
    /\ lastChat' = None
    /\ UNCHANGED <<envVars, rateVars, chatVars, dbUp, sessions, vkeys, kv, issued,
                   secretOf, revoked, disabledAt, verified, reqs>>

\* update_provider_key, one turn of the loop: model_routes.insert
InsertRoute(c) ==
    /\ c.op = "configure"
    /\ c.next <= Len(get_primary_models(c.provider_id))
    /\ LET model == get_primary_models(c.provider_id)[c.next] IN
       model_routes' =
           [model_routes EXCEPT
               ![model] = Some(ModelRoute(c.provider_id, model, c.api_key))]
    /\ calls' = Others(c) \cup {[c EXCEPT !.next = c.next + 1]}
    /\ CallStep
    /\ UNCHANGED <<provider_keys, lastDone>>

\* history: the persistence call of this call on the provider and of every
\* call on it that returned before has succeeded
Persisted(provider_id, fault) ==
    /\ fault # "db"
    /\ \A done \in lastDone[provider_id] : done.persisted

\* update_provider_key, after the loop: store_provider_key, whose failure is
\* logged, and the 200 response
StoreProviderKey(c, fault) ==
    /\ c.op = "configure"
    /\ c.next > Len(get_primary_models(c.provider_id))
    /\ provider_keys' =
           IF fault = "db" THEN provider_keys
           ELSE [provider_keys EXCEPT ![c.provider_id] = Some(c.api_key)]
    /\ calls' = calls \ {c}
    /\ lastDone' = [lastDone EXCEPT ![c.provider_id] =
                       Some([op |-> "configure", api_key |-> c.api_key,
                             id |-> c.id, status |-> 200,
                             models_configured |-> c.next - 1,
                             persisted |-> Persisted(c.provider_id, fault)])]
    /\ CallStep
    /\ UNCHANGED model_routes

\* delete_provider_key, one turn of the loop: model_routes.remove
RemoveRoute(c) ==
    /\ c.op = "delete"
    /\ \E model \in c.todo :
          /\ model_routes' = [model_routes EXCEPT ![model] = None]
          /\ calls' = Others(c) \cup {[c EXCEPT !.todo = c.todo \ {model}]}
    /\ CallStep
    /\ UNCHANGED <<provider_keys, lastDone>>

\* delete_provider_key, after the loop: Database::delete_provider_key, whose
\* failure is logged, and the 200 response
DeleteProviderKey(c, fault) ==
    /\ c.op = "delete"
    /\ c.todo = {}
    /\ provider_keys' =
           IF fault = "db" THEN provider_keys
           ELSE [provider_keys EXCEPT ![c.provider_id] = None]
    /\ calls' = calls \ {c}
    /\ lastDone' = [lastDone EXCEPT ![c.provider_id] =
                       Some([op |-> "delete", api_key |-> c.api_key,
                             id |-> c.id, status |-> 200,
                             models_removed |->
                                 Cardinality(c.keys_to_remove),
                             persisted |-> Persisted(c.provider_id, fault)])]
    /\ CallStep
    /\ UNCHANGED model_routes

\* the models a chat completion can name
ChatModels == Models \cup {"no-such-model"}

\* chat_completions: the route of the model, the response cache, the
\* provider of the route, and the call of the provider with route.api_key
Dispatch(model, cache_hit) ==
    LET route == IF model \in DOMAIN model_routes
                 THEN model_routes[model] ELSE None
    IN  IF route = None THEN [kind |-> "ModelNotFound", status |-> 404]
        ELSE IF cache_hit THEN [kind |-> "cached", status |-> 200]
        ELSE IF Unwrap(route).provider \notin providers
        THEN [kind |-> "ProviderNotFound", status |-> 404]
        ELSE [kind |-> "dispatched", provider |-> Unwrap(route).provider,
              target_model |-> Unwrap(route).target_model,
              api_key |-> Unwrap(route).api_key]

\* POST /v1/chat/completions
chat_completions(model, cache_hit) ==
    /\ lastChat' = Some([model |-> model, outcome |-> Dispatch(model, cache_hit)])
    /\ lastResp' = None
    /\ UNCHANGED <<envVars, rateVars, chatVars, dbUp, sessions, vkeys, kv, issued,
                   secretOf, revoked, disabledAt, verified, reqs, model_routes,
                   provider_keys, calls, lastDone>>

\* main.rs, provider_routes: the routes layered with require_auth
provider_routes(header, fault) ==
    /\ reqs < MaxRequests
    /\ \E a \in {require_auth(header, fault)} :
          \/ \E request \in ConfigureRequests :
                update_provider_key(header, fault, request, a)
          \/ \E provider_id \in {None} \cup {Some(p) : p \in ProviderIds} :
                delete_provider_key(header, fault, provider_id, a)

\* The gateway as AuthStart has it, the relational store up, with the
\* routes of startup
InitRoute ==
    /\ AuthStart
    /\ dbUp
    /\ RouteAtRest
    /\ ChatAtRest

NextRoute ==
    \/ \E h \in Headers, fault \in Faults : provider_routes(h, fault)
    \/ \E c \in calls : InsertRoute(c)
    \/ \E c \in calls, fault \in DbFaults : StoreProviderKey(c, fault)
    \/ \E c \in calls : RemoveRoute(c)
    \/ \E c \in calls, fault \in DbFaults : DeleteProviderKey(c, fault)
    \/ \E model \in ChatModels, cache_hit \in BOOLEAN :
          chat_completions(model, cache_hit)

SpecRoute == InitRoute /\ [][NextRoute]_vars

-----------------------------------------------------------------------------
(* Properties of the route table, checked under SpecRoute.                  *)

\* the provider whose primary-model list holds the model
ProviderOf(model) ==
    CHOOSE p \in providers : model \in Range(get_primary_models(p))

\* C3: after configure(P, S) has returned success, a chat-completions
\* request for a primary model of P that reaches a provider is dispatched to
\* P with the credential of that call, whatever configure and delete calls
\* ran concurrently with it.  Stated for the call on P that returned last,
\* with no call on P still in progress.
C3_ConfiguredCredentialDispatched ==
    \A chat \in lastChat :
        chat.model \in Models =>
            LET P == ProviderOf(chat.model) IN
            \A done \in lastDone[P] :
                ( /\ done.op = "configure"
                  /\ \A c \in calls : c.provider_id # P
                  /\ chat.outcome.kind # "cached" )
                => /\ chat.outcome.kind = "dispatched"
                   /\ chat.outcome.provider = P
                   /\ chat.outcome.api_key = done.api_key

\* C8: a step changes the route table or the persisted provider keys only
\* on behalf of a provider call of an admin or session principal, never of
\* a call authenticated by an API key.
C8_ProviderCallsNeverByApiKey ==
    [][ (model_routes' # model_routes \/ provider_keys' # provider_keys)
        => \E c \in calls \ calls' : c.auth_type.kind # "VirtualKey" ]_vars

\* the step in which the provider call c returns its response
Returns(c) == \A d \in calls' : d.id # c.id

\* C19: a configure call for a known provider P with a non-empty secret
\* (and resource name for Azure) returns 200 with models_configured equal
\* to the length of the primary-model list of P; on return every primary
\* model of P has the route of P with the credential of the call; the turns
\* of its loop leave the routes of the other models as they are; and this
\* holds whether or not the credential was persisted.
C19_ConfigureInstallsRoutes ==
    [][ \A c \in calls \ calls' :
          c.op = "configure" =>
            LET P == c.provider_id
                primary == Range(get_primary_models(P))
            IN  /\ (\E d \in calls' : d.id = c.id /\ d.next # c.next)
                   => \A m \in Models \ primary :
                          model_routes'[m] = model_routes[m]
                /\ Returns(c)
                   => /\ \E done \in lastDone'[P] :
                            /\ done.id = c.id
                            /\ done.status = 200
                            /\ done.models_configured
                                   = Len(get_primary_models(P))
                      /\ \A m \in primary :
                            model_routes'[m]
                               = Some(ModelRoute(P, m, c.api_key)) ]_vars

\* the models the route table t routes to the provider P
RoutedTo(t, P) == {m \in Models : \E r \in t[m] : r.provider = P}

\* C20: a delete call for provider P that ran with no other call writing
\* the route table leaves, on return, no route of P and every other route
\* as the call found it, has deleted the persisted credential of P, and
\* reports models_removed equal to the number of routes of P it found.
C20_DeleteRemovesRoutesAndCredential ==
    [][ \A c \in calls \ calls' :
          (c.op = "delete" /\ ~c.disturbed /\ Returns(c)) =>
            LET P == c.provider_id IN
            /\ \A m \in Models :
                  model_routes'[m]
                     = IF m \in RoutedTo(c.found, P) THEN None ELSE c.found[m]
            /\ provider_keys'[P] = None
            /\ \E done \in lastDone'[P] :
                  /\ done.id = c.id
                  /\ done.status = 200
                  /\ done.models_removed
                         = Cardinality(RoutedTo(c.found, P)) ]_vars

-----------------------------------------------------------------------------
(* models/virtual_key.rs: VirtualKey::is_valid, applied to keys of every     *)
(* combination of blocked, budget, spend and expiry at every instant.  The   *)
(* amounts and the instants are whole numbers.                               *)

Budgets == 0..MaxBudget
ValidInstants == 0..MaxClock

\* the keys is_valid is called on
CheckedKeys ==
    {[VirtualKeyCreate(1, hash_virtual_key(generate_virtual_key(Draws[1])),
                       create_lookup_hash(generate_virtual_key(Draws[1])),
                       get_key_prefix(generate_virtual_key(Draws[1])),
                       Some("u1"),
                       [NoFields EXCEPT !.max_budget = max_budget,
                                        !.expires_at = expires_at])
         EXCEPT !.blocked = blocked, !.current_spend = current_spend] :
        max_budget \in {None} \cup {Some(x) : x \in Budgets},
        expires_at \in {None} \cup {Some(t) : t \in ValidInstants},
        blocked \in BOOLEAN, current_spend \in Budgets}

\* a call of is_valid on a key of the table
IsValid(k) ==
    /\ validity' = Some([key |-> k, at |-> now, valid |-> is_valid(k, now)])
    /\ UNCHANGED <<envVars, rateVars, authVars, routeVars, cache_enabled,
                   llm_cache, chats, finished, usage_records, provider_health,
                   lastHealth, evaluated>>

\* time passes
ValidTick ==
    /\ \E t \in ValidInstants : t > now /\ now' = t
    /\ UNCHANGED <<redisUp, rateVars, authVars, routeVars, chatVars>>

InitValid ==
    /\ now \in ValidInstants
    /\ redisUp = FALSE
    /\ dbUp = TRUE
    /\ RateAtRest
    /\ RouteAtRest
    /\ ChatAtRest
    /\ sessions = {} /\ kv = <<>> /\ issued = {}
    /\ secretOf = {} /\ revoked = {} /\ disabledAt = {} /\ verified = {}
    /\ reqs = 0 /\ lastResp = None
    /\ vkeys \in {{k} : k \in CheckedKeys}

NextValid ==
    \/ ValidTick
    \/ \E k \in vkeys : IsValid(k)

SpecValid == InitValid /\ [][NextValid]_vars

\* C16: is_valid is true exactly when the key is not blocked, and its budget
\* is unset or its spend below the budget, and its expiry is unset or later
\* than now; also when the spend equals the budget and when the expiry is
\* now.
C16_ValidIffUnblockedInBudgetUnexpired ==
    \A call \in validity :
        call.valid <=>
            /\ ~call.key.blocked
            /\ \A max_budget \in call.key.max_budget :
                  call.key.current_spend < max_budget
            /\ \A expires_at \in call.key.expires_at : expires_at > call.at

-----------------------------------------------------------------------------
(* load_balancer.rs: the health tracker.  provider_health maps the key of a *)
(* (provider, model) pair to its ProviderHealth; its operations run under   *)
(* the write lock of the map, one at a time.                                 *)

\* the key of an entry, format!("{}:{}", provider, model); no provider id
\* holds a ':', so the key determines the pair
HealthKey(provider, model) == <<provider, model>>

\* ProviderHealth::new
ProviderHealthNew ==
    [success_count |-> 0, error_count |-> 0, total_latency_ms |-> 0,
     last_error_time |-> None, available |-> TRUE]

\* ProviderHealth::success_rate, as the fraction <<numerator, denominator>>
success_rate(health) ==
    LET total == health.success_count + health.error_count IN
    IF total = 0 THEN <<1, 1>> ELSE <<health.success_count, total>>

\* rate < 0.5
BelowHalf(rate) == 2 * rate[1] < rate[2]

\* health_map.entry(key).or_insert_with(ProviderHealth::new)
OrInsert(health_map, key) ==
    IF key \in DOMAIN health_map THEN health_map[key] ELSE ProviderHealthNew

Put(health_map, key, health) ==
    [k \in DOMAIN health_map \cup {key} |->
        IF k = key THEN health ELSE health_map[k]]

\* LoadBalancer::record_success
record_success(health_map, provider, model, latency_ms) ==
    LET key    == HealthKey(provider, model)
        health == OrInsert(health_map, key)
    IN  Put(health_map, key,
            [health EXCEPT !.success_count = @ + 1,
                           !.total_latency_ms = @ + latency_ms,
                           !.available = TRUE])

\* record_error with the threshold at three errors
record_error_three(health_map, provider, model, clock) ==
    LET key    == HealthKey(provider, model)
        health == OrInsert(health_map, key)
        counted == [health EXCEPT !.error_count = @ + 1,
                                  !.last_error_time = Some(clock)]
    IN  Put(health_map, key,
            IF BelowHalf(success_rate(counted)) /\ counted.error_count > 2
            THEN [counted EXCEPT !.available = FALSE]
            ELSE counted)

\* record_error that counts the error of a call and of its repetition
record_error_twice(health_map, provider, model, clock) ==
    LET key    == HealthKey(provider, model)
        health == OrInsert(health_map, key)
        counted == [health EXCEPT !.error_count = @ + 2,
                                  !.last_error_time = Some(clock)]
    IN  Put(health_map, key,
            IF BelowHalf(success_rate(counted)) /\ counted.error_count > 3
            THEN [counted EXCEPT !.available = FALSE]
            ELSE counted)

\* LoadBalancer::record_error
record_error(health_map, provider, model, clock) ==
    LET key    == HealthKey(provider, model)
        health == OrInsert(health_map, key)
        counted == [health EXCEPT !.error_count = @ + 1,
                                  !.last_error_time = Some(clock)]
    IN  Put(health_map, key,
            IF BelowHalf(success_rate(counted)) /\ counted.error_count > 3
            THEN [counted EXCEPT !.available = FALSE]
            ELSE counted)

\* reset_provider that also forgets the successes
reset_provider_all(health_map, provider, model) ==
    LET key == HealthKey(provider, model) IN
    IF key \in DOMAIN health_map
    THEN Put(health_map, key, ProviderHealthNew)
    ELSE health_map

\* reset_provider that leaves the availability as it is
reset_provider_counts_only(health_map, provider, model) ==
    LET key == HealthKey(provider, model) IN
    IF key \in DOMAIN health_map
    THEN Put(health_map, key,
             [health_map[key] EXCEPT !.error_count = 0,
                                     !.last_error_time = None])
    ELSE health_map

\* LoadBalancer::reset_provider
reset_provider(health_map, provider, model) ==
    LET key == HealthKey(provider, model) IN
    IF key \in DOMAIN health_map
    THEN Put(health_map, key,
             [health_map[key] EXCEPT !.available = TRUE,
                                     !.error_count = 0,
                                     !.last_error_time = None])
    ELSE health_map

\* the pairs the tracker is called with: the routes of two models
HealthPairs == {<<"openai", "gpt-5">>, <<"azure", "azure-gpt-4o">>}

\* the latencies a call can report, in milliseconds
Latencies == 1..MaxLatency

\* the calls recorded for a pair since its entry was made or last reset
Recorded(health_map, pair) ==
    LET health == OrInsert(health_map, HealthKey(pair[1], pair[2]))
    IN  health.success_count + health.error_count

\* a call of the tracker, as the history keeps it
HealthCall(op, pair) == [op |-> op, pair |-> pair, before |-> provider_health]

RecordSuccess(pair, latency_ms) ==
    /\ Recorded(provider_health, pair) < MaxCount
    /\ provider_health' =
          record_success(provider_health, pair[1], pair[2], latency_ms)
    /\ lastHealth' = Some(HealthCall("record_success", pair))
    /\ UNCHANGED <<envVars, rateVars, authVars, routeVars, cache_enabled, validity, evaluated,
                   llm_cache, chats, finished, usage_records>>

RecordError(pair) ==
    /\ Recorded(provider_health, pair) < MaxCount
    /\ provider_health' = record_error(provider_health, pair[1], pair[2], now)
    /\ lastHealth' = Some(HealthCall("record_error", pair))
    /\ UNCHANGED <<envVars, rateVars, authVars, routeVars, cache_enabled, validity, evaluated,
                   llm_cache, chats, finished, usage_records>>

ResetProvider(pair) ==
    /\ provider_health' = reset_provider(provider_health, pair[1], pair[2])
    /\ lastHealth' = Some(HealthCall("reset_provider", pair))
    /\ UNCHANGED <<envVars, rateVars, authVars, routeVars, cache_enabled, validity, evaluated,
                   llm_cache, chats, finished, usage_records>>

InitHealth == InitRate

NextHealth ==
    \/ Tick
    \/ \E pair \in HealthPairs, latency_ms \in Latencies :
          RecordSuccess(pair, latency_ms)
    \/ \E pair \in HealthPairs : RecordError(pair)
    \/ \E pair \in HealthPairs : ResetProvider(pair)

SpecHealth == InitHealth /\ [][NextHealth]_vars

-----------------------------------------------------------------------------
(* Properties of the health tracker, checked under SpecHealth *)

\* the entry of a pair in a health map, if any
EntryOf(health_map, pair) ==
    IF HealthKey(pair[1], pair[2]) \in DOMAIN health_map
    THEN Some(health_map[HealthKey(pair[1], pair[2])]) ELSE None

C18_ResetKeepsSuccesses ==
    \A call \in lastHealth :
        call.op = "reset_provider" =>
            LET key == HealthKey(call.pair[1], call.pair[2]) IN
            IF key \in DOMAIN call.before
            THEN /\ DOMAIN provider_health = DOMAIN call.before
                 /\ provider_health[key].available
                 /\ provider_health[key].error_count = 0
                 /\ provider_health[key].last_error_time = None
                 /\ provider_health[key].success_count =
                       call.before[key].success_count
                 /\ provider_health[key].total_latency_ms =
                       call.before[key].total_latency_ms
            ELSE provider_health = call.before

\* a reset of an unavailable entry that has successes and a latency total
C18_ResetOfUnavailableEntry ==
    \E call \in lastHealth :
        /\ call.op = "reset_provider"
        /\ \E health \in EntryOf(call.before, call.pair) :
              /\ ~health.available
              /\ health.success_count > 0
              /\ health.total_latency_ms > 0
              /\ health.error_count > 0
              /\ IsSome(health.last_error_time)

-----------------------------------------------------------------------------
(* cost.rs, cache.rs and main.rs chat_completions: the response cache and   *)
(* the chat completion handler.  The handler is followed for requests       *)
(* without a key principal, so its reading of the rate limit status, which  *)
(* only adds headers, is left out.  A request runs in two steps: up to the  *)
(* call of the provider, and from the provider's answer on.                 *)

\* CostCalculator::new: the prices per million tokens, in thousandths of a
\* dollar
pricing ==
    [x \in {"gpt-4", "gpt-4-turbo", "gpt-3.5-turbo"} |->
        CASE x = "gpt-4"         -> [input |-> 30000, output |-> 60000]
          [] x = "gpt-4-turbo"   -> [input |-> 10000, output |-> 30000]
          [] x = "gpt-3.5-turbo" -> [input |-> 500, output |-> 1500]]

\* calculate_default_cost with the two rates exchanged
calculate_default_cost_swapped(prompt_tokens, completion_tokens) ==
    prompt_tokens * 6000 + completion_tokens * 2000

\* calculate_cost without the input cost
calculate_cost_of_output(model, prompt_tokens, completion_tokens) ==
    IF model \in DOMAIN pricing
    THEN completion_tokens * pricing[model].output
    ELSE completion_tokens * 6000

\* calculate_default_cost, in billionths of a dollar
calculate_default_cost(prompt_tokens, completion_tokens) ==
    prompt_tokens * 2000 + completion_tokens * 6000

\* calculate_cost, in billionths of a dollar
calculate_cost(model, prompt_tokens, completion_tokens) ==
    IF model \in DOMAIN pricing
    THEN prompt_tokens * pricing[model].input
         + completion_tokens * pricing[model].output
    ELSE calculate_default_cost(prompt_tokens, completion_tokens)

\* Config.cache_ttl_seconds, the default
cache_ttl_seconds == 3600

\* struct ChatCompletionResponse: the id, the name of the message of its
\* choice, which is optional, and the usage block
ResponseFields ==
    {"id", "name", "prompt_tokens", "completion_tokens", "total_tokens"}

\* the answers of a provider
Completions ==
    {[id |-> "a", name |-> None, prompt_tokens |-> 1,
      completion_tokens |-> 1, total_tokens |-> 2],
     [id |-> "b", name |-> Some("n"), prompt_tokens |-> 1,
      completion_tokens |-> 2, total_tokens |-> 3]}

\* what provider.complete returns: Ok(response) or Err
Answers ==
    {[tag |-> "Ok", response |-> r] : r \in Completions} \cup {[tag |-> "Err"]}

\* to_string that leaves the id out
to_string_skip_id(response) ==
    [f \in {x \in ResponseFields \ {"id"} :
               x = "name" => IsSome(response.name)} |->
        IF f = "name" THEN Unwrap(response.name) ELSE response[f]]

\* serde_json::to_string(&ChatCompletionResponse), also the body of
\* Json(response): a name that is None is left out
to_string(response) ==
    [f \in {x \in ResponseFields : x = "name" => IsSome(response.name)} |->
        IF f = "name" THEN Unwrap(response.name) ELSE response[f]]

\* serde_json::from_str::<ChatCompletionResponse>: a missing name reads as
\* None, any other missing field is an error
from_str(json) ==
    IF ResponseFields \ {"name"} \subseteq DOMAIN json
    THEN [ok |-> TRUE,
          value |-> [f \in ResponseFields |->
                        IF f = "name"
                        THEN IF "name" \in DOMAIN json
                             THEN Some(json.name) ELSE None
                        ELSE json[f]]]
    ELSE [ok |-> FALSE]

\* CacheManager::generate_cache_key: the hash of "{model}:{messages}",
\* taken to be free of collisions
generate_cache_key(model, messages) == <<"llm:cache", model, messages>>

\* get that passes the error of the store on
CacheManagerGetStrict(enabled, store, key, fault, clock) ==
    IF ~enabled THEN [tag |-> "Ok", value |-> None, err |-> "none"]
    ELSE IF fault = "cache"
    THEN [tag |-> "Err", value |-> None, err |-> "backend"]
    ELSE LET cached == cache_get(store, key, clock) IN
         IF cached = None THEN [tag |-> "Ok", value |-> None, err |-> "nil"]
         ELSE LET d == from_str(Unwrap(cached)) IN
              IF d.ok
              THEN [tag |-> "Ok", value |-> Some(d.value), err |-> "none"]
              ELSE [tag |-> "Err", value |-> None, err |-> "deserialize"]

\* CacheManager::get: Ok(None) or Ok(Some(value)), with the error it
\* swallowed, if any ("nil" is the reply for a key the store does not hold)
CacheManagerGet(enabled, store, key, fault, clock) ==
    IF ~enabled THEN [tag |-> "Ok", value |-> None, err |-> "none"]
    ELSE IF fault = "cache"
    THEN [tag |-> "Ok", value |-> None, err |-> "backend"]
    ELSE LET cached == cache_get(store, key, clock) IN
         IF cached = None THEN [tag |-> "Ok", value |-> None, err |-> "nil"]
         ELSE LET d == from_str(Unwrap(cached)) IN
              IF d.ok
              THEN [tag |-> "Ok", value |-> Some(d.value), err |-> "none"]
              ELSE [tag |-> "Ok", value |-> None, err |-> "deserialize"]

\* CacheManager::set: Ok(()) and the store it leaves
CacheManagerSet(enabled, store, key, value, ttl, fault, clock) ==
    IF ~enabled THEN [tag |-> "Ok", err |-> "none", store |-> store]
    ELSE IF fault = "cache"
    THEN [tag |-> "Ok", err |-> "backend", store |-> store]
    ELSE [tag |-> "Ok", err |-> "none",
          store |-> set_ex(store, key, to_string(value), ttl, clock)]

\* the message lists of a request: up to MaxMessages messages "ping"
Messages == {[n \in 1..len |-> "ping"] : len \in 1..MaxMessages}

\* the requests followed: for a routed model, every message list, streaming
\* or not; for an unknown model, one request
ChatRequests ==
    {r \in [model : {get_primary_models("openai")[1], "no-such-model"},
            messages : Messages, stream : BOOLEAN] :
        r.model = "no-such-model" => (r.messages = <<"ping">> /\ ~r.stream)}

\* the fault a step of a request runs with: "none", or "cache" (its commands
\* to the cache store fail).  A relational store that fails is one that is
\* not enabled.
ChatFaults == {"none"} \cup (IF cache_enabled THEN {"cache"} ELSE {})

\* a row of usage_records, with the request it was written for
UsageRow(i, model, provider, response, cost_usd, cached, error) ==
    [request |-> i, model |-> model, provider |-> provider,
     prompt_tokens |-> response.prompt_tokens,
     completion_tokens |-> response.completion_tokens,
     total_tokens |-> response.total_tokens,
     cost_usd |-> cost_usd, cached |-> cached, error |-> error]

NoTokens == [prompt_tokens |-> 0, completion_tokens |-> 0, total_tokens |-> 0]

\* Database::record_usage under `if state.database.is_enabled()`
record_usage(table, row) == IF dbUp THEN Append(table, row) ELSE table

\* the request has its response
ChatEnded(c, status, body) ==
    [c EXCEPT !.pc = "done", !.ended = finished + 1, !.done_at = now,
              !.status = status, !.body = body]

\* chat_completions up to the call of the provider: the route of the model,
\* the response cache, the provider of the route
ChatBegin(request, fault) ==
    /\ Len(chats) < MaxChats
    /\ LET i       == Len(chats) + 1
           route   == IF request.model \in DOMAIN model_routes
                      THEN model_routes[request.model] ELSE None
           consult == route # None /\ ~request.stream /\ cache_enabled
           g       == IF consult
                      THEN CacheManagerGet(cache_enabled, llm_cache,
                               generate_cache_key(request.model,
                                                  request.messages),
                               fault, now)
                      ELSE [tag |-> "off", value |-> None, err |-> "none"]
           c       == [model |-> request.model, messages |-> request.messages,
                       stream |-> request.stream, began |-> finished,
                       ended |-> 0, at |-> now, done_at |-> now,
                       pc |-> "calling", answer |-> "none",
                       route |-> route,
                       get |-> [tag |-> g.tag, err |-> g.err,
                                hit |-> g.tag = "Ok" /\ IsSome(g.value)],
                       set |-> [tag |-> "off", err |-> "none",
                                stored |-> FALSE],
                       upstream |-> 0, status |-> 0, body |-> None]
       IN  IF route = None
           THEN /\ chats' = Append(chats, ChatEnded(c, 404, None))
                /\ finished' = finished + 1
                /\ UNCHANGED usage_records
           ELSE IF c.get.hit
           THEN /\ usage_records' =
                      record_usage(usage_records,
                          UsageRow(i, request.model, Unwrap(route).provider,
                                   Unwrap(g.value), 0, TRUE, None))
                /\ chats' = Append(chats,
                      ChatEnded(c, 200, Some(to_string(Unwrap(g.value)))))
                /\ finished' = finished + 1
           ELSE IF Unwrap(route).provider \notin providers
           THEN /\ chats' = Append(chats, ChatEnded(c, 404, None))
                /\ finished' = finished + 1
                /\ UNCHANGED usage_records
           ELSE /\ chats' = Append(chats, [c EXCEPT !.upstream = 1])
                /\ UNCHANGED <<finished, usage_records>>
    /\ UNCHANGED <<envVars, rateVars, authVars, routeVars, cache_enabled, validity, evaluated,
                   llm_cache, provider_health, lastHealth>>

\* chat_completions from the answer of the provider on: an error, or a
\* response and the latency measured
ChatReturn(i, answer, fault, latency_ms) ==
    /\ chats[i].pc = "calling"
    /\ LET c      == [chats[i] EXCEPT !.answer = answer.tag]
           route  == Unwrap(c.route)
           pair   == <<route.provider, route.target_model>>
           result == answer.response
       IN  IF answer.tag = "Err"
           THEN /\ provider_health' =
                      record_error(provider_health, pair[1], pair[2], now)
                /\ lastHealth' = Some(HealthCall("record_error", pair))
                /\ usage_records' =
                      IF c.stream THEN usage_records
                      ELSE record_usage(usage_records,
                               UsageRow(i, c.model, route.provider, NoTokens,
                                        0, FALSE, Some("error")))
                /\ chats' = [chats EXCEPT ![i] = ChatEnded(c, 502, None)]
                /\ UNCHANGED llm_cache
           ELSE /\ provider_health' =
                      record_success(provider_health, pair[1], pair[2],
                                     latency_ms)
                /\ lastHealth' = Some(HealthCall("record_success", pair))
                /\ IF c.stream
                   THEN /\ chats' = [chats EXCEPT ![i] =
                              ChatEnded(c, 200, Some(<<"stream", result.id>>))]
                        /\ UNCHANGED <<usage_records, llm_cache>>
                   ELSE LET s == CacheManagerSet(cache_enabled, llm_cache,
                                     generate_cache_key(c.model, c.messages),
                                     result, cache_ttl_seconds, fault, now)
                        IN  /\ usage_records' =
                                  record_usage(usage_records,
                                      UsageRow(i, c.model, route.provider,
                                          result,
                                          calculate_cost(c.model,
                                              result.prompt_tokens,
                                              result.completion_tokens),
                                          FALSE, None))
                            /\ llm_cache' = s.store
                            /\ chats' = [chats EXCEPT ![i] =
                                  [ChatEnded(c, 200, Some(to_string(result)))
                                      EXCEPT !.set =
                                         [tag |-> IF cache_enabled
                                                  THEN s.tag ELSE "off",
                                          err |-> s.err,
                                          stored |-> s.store # llm_cache]]]
    /\ finished' = finished + 1
    /\ UNCHANGED <<envVars, rateVars, authVars, routeVars, cache_enabled, validity, evaluated>>

\* the instants at which the cache is observed: the start of the run and
\* the second an entry written then is gone
CacheInstants == {0, cache_ttl_seconds}

CacheTick ==
    /\ \E t \in CacheInstants :
          /\ t > now
          /\ now' = t
          /\ llm_cache' = Expire(llm_cache, t)
    /\ UNCHANGED <<redisUp, rateVars, authVars, routeVars, cache_enabled, validity, evaluated,
                   chats, finished, usage_records, provider_health,
                   lastHealth>>

\* an entry another writer left in the store under the key of a request
ForeignEntry ==
    [k \in {generate_cache_key(get_primary_models("openai")[1],
                               <<"ping">>)} |->
        [data |-> [junk |-> "x"], expireAt |-> cache_ttl_seconds]]

\* The gateway after startup, caching on or off, the relational store up or
\* not, the cache store with an entry the gateway cannot read
InitCache ==
    /\ now = 0
    /\ cache_enabled \in BOOLEAN
    /\ redisUp = cache_enabled
    /\ dbUp \in BOOLEAN
    /\ RateAtRest
    /\ RouteAtRest
    /\ sessions = {} /\ vkeys = {} /\ kv = <<>> /\ issued = {}
    /\ secretOf = {} /\ revoked = {} /\ disabledAt = {} /\ verified = {}
    /\ reqs = 0 /\ lastResp = None
    /\ llm_cache = IF cache_enabled THEN ForeignEntry ELSE <<>>
    /\ chats = <<>>
    /\ finished = 0
    /\ usage_records = <<>>
    /\ provider_health = <<>>
    /\ lastHealth = None
    /\ validity = None
    /\ evaluated = None

NextCache ==
    \/ CacheTick
    \/ \E request \in ChatRequests, fault \in ChatFaults :
          ChatBegin(request, fault)
    \/ \E i \in DOMAIN chats, answer \in Answers, fault \in ChatFaults,
          latency_ms \in Latencies :
          ChatReturn(i, answer, fault, latency_ms)

SpecCache == InitCache /\ [][NextCache]_vars

-----------------------------------------------------------------------------
(* Properties of the response cache, checked under SpecCache *)

\* the rows of usage_records written for request i
UsageOf(i) ==
    {usage_records[n] : n \in {x \in DOMAIN usage_records :
                                  usage_records[x].request = i}}

\* Request j repeats request i: both are non-streaming with the same model
\* and messages, i was answered from the provider and its response cached
\* before j arrived, j arrived within the TTL of that entry, and no command
\* of either to the cache store failed.
Repeats(i, j) ==
    /\ i # j
    /\ cache_enabled
    /\ ~chats[i].stream /\ ~chats[j].stream
    /\ chats[i].model = chats[j].model
    /\ chats[i].messages = chats[j].messages
    /\ chats[i].pc = "done" /\ chats[i].status = 200
    /\ chats[i].set.stored
    /\ chats[i].get.err # "backend"
    /\ chats[j].began >= chats[i].ended
    /\ chats[j].at < chats[i].done_at + cache_ttl_seconds
    /\ chats[j].get.err # "backend"

\* the request whose response was cached last, before request j arrived,
\* under the key of j
LastCached(j) ==
    LET writers == {k \in DOMAIN chats :
                       /\ ~chats[k].stream
                       /\ chats[k].model = chats[j].model
                       /\ chats[k].messages = chats[j].messages
                       /\ chats[k].set.stored
                       /\ chats[k].ended > 0
                       /\ chats[k].ended <= chats[j].began}
    IN  CHOOSE k \in writers : \A w \in writers : chats[w].ended <= chats[k].ended

\* a request served from the cache: no call of the provider, and a usage
\* row, if the relational store is enabled, with cached = true and cost 0
ServedFromCache(j) ==
    /\ chats[j].pc = "done"
    /\ chats[j].status = 200
    /\ chats[j].upstream = 0
    /\ \A row \in UsageOf(j) : row.cached /\ row.cost_usd = 0
    /\ dbUp => Cardinality(UsageOf(j)) = 1

\* C14 as stated: with caching enabled and the cache store working, of two
\* identical non-streaming requests, the second within the cache TTL, the
\* second returns a response byte-identical to the first, makes no call of
\* the provider, and its usage record has cached = true and cost = 0.
C14_SecondIdenticalToFirst ==
    \A i \in DOMAIN chats, j \in DOMAIN chats :
        Repeats(i, j) =>
            /\ ServedFromCache(j)
            /\ chats[j].body = chats[i].body

\* C14: with caching enabled and the cache store working, a non-streaming
\* request that repeats an earlier one within the cache TTL makes no call of
\* the provider, its usage record has cached = true and cost = 0, and its
\* response is byte-identical to the response cached last for its model and
\* messages: the first request's, unless an identical request that missed
\* the cache was answered in between.
C14_SecondIdenticalToLastCached ==
    \A i \in DOMAIN chats, j \in DOMAIN chats :
        Repeats(i, j) =>
            /\ ServedFromCache(j)
            /\ chats[j].body = chats[LastCached(j)].body
            /\ LastCached(j) = i => chats[j].body = chats[i].body

\* a repeated request answered from the cache with the response of the
\* first, its usage row written
C14_RepeatServedFromCache ==
    \E i \in DOMAIN chats, j \in DOMAIN chats :
        /\ Repeats(i, j)
        /\ chats[j].get.hit
        /\ chats[j].body = chats[i].body
        /\ \E row \in UsageOf(j) : row.cached

\* C15: no error of the cache backend makes a chat completion fail.  On a
\* backend or deserialization error CacheManager.get returns Ok(None), on a
\* backend error CacheManager.set returns Ok and stores nothing, and the
\* request goes on as on a miss: the provider is called, and the request
\* ends with the provider's response, or with the provider's error.
C15_CacheErrorsAreMisses ==
    \A i \in DOMAIN chats :
        LET c == chats[i] IN
        /\ c.get.tag \in {"off", "Ok"}
        /\ c.set.tag \in {"off", "Ok"}
        /\ c.get.err \in {"backend", "deserialize"} =>
              /\ ~c.get.hit
              /\ c.upstream = 1
              /\ c.pc = "done" =>
                    \/ c.answer = "Ok" /\ c.status = 200 /\ IsSome(c.body)
                    \/ c.answer = "Err" /\ c.status = 502
        /\ c.set.err = "backend" =>
              /\ ~c.set.stored
              /\ c.answer = "Ok" /\ c.status = 200 /\ IsSome(c.body)

\* a request that found an entry it could not read, called the provider,
\* failed to store the response and returned it
C15_ServedDespiteCacheErrors ==
    \E i \in DOMAIN chats :
        /\ chats[i].get.err = "deserialize"
        /\ chats[i].set.err = "backend"
        /\ chats[i].status = 200
        /\ \E j \in DOMAIN chats : chats[j].get.err = "backend"

-----------------------------------------------------------------------------
(* Functions without side effects, each applied to arguments drawn from     *)
(* bounded sets; `evaluated` keeps the last call.                           *)

\* a call of a function, recorded with the instant at which it was made; a
\* behaviour holds one call
Evaluate(call) ==
    /\ evaluated = None
    /\ evaluated' = Some(call)
    /\ UNCHANGED <<envVars, rateVars, authVars, routeVars, cache_enabled,
                   llm_cache, chats, finished, usage_records, provider_health,
                   lastHealth, validity>>

-----------------------------------------------------------------------------
(* providers/azure.rs: the request AzureProvider::complete sends for the    *)
(* credential update_provider_key stored.  Texts are sequences of           *)
(* characters; the fixed pieces of the URL are single elements.             *)

\* the characters of resource names and secrets, and the texts made of them
Chars == {"a", ":", " ", "/"}
Texts == UNION {[1..n -> Chars] : n \in 0..MaxText}

\* str::rsplit_once, in the place of split_once
rsplit_once(str, ch) ==
    IF \E i \in 1..Len(str) : str[i] = ch
    THEN LET i == CHOOSE i \in 1..Len(str) :
                      str[i] = ch /\ \A j \in (i + 1)..Len(str) : str[j] # ch
         IN  Some(<<SubSeq(str, 1, i - 1), SubSeq(str, i + 1, Len(str))>>)
    ELSE None

\* str::split_once: the text before and the text after the first ch
split_once(str, ch) ==
    IF \E i \in 1..Len(str) : str[i] = ch
    THEN LET i == CHOOSE i \in 1..Len(str) :
                      str[i] = ch /\ \A j \in 1..(i - 1) : str[j] # ch
         IN  Some(<<SubSeq(str, 1, i - 1), SubSeq(str, i + 1, Len(str))>>)
    ELSE None

\* AzureProvider::parse_api_key
parse_api_key(api_key) ==
    LET parts == split_once(api_key, ":") IN
    IF parts = None THEN [tag |-> "Err", error |-> "ProviderError"]
    ELSE [tag |-> "Ok", resource_name |-> Unwrap(parts)[1],
          actual_api_key |-> Unwrap(parts)[2]]

\* provider_config::azure::API_VERSION
API_VERSION == <<"2024-10-21">>

\* the models of Azure requests: the prefix and the rest of the name
AzureModels ==
    {<<"azure-", "gpt-4o">>, <<"azure-", "gpt-4o-mini">>,
     <<"azure-", "gpt-4.1">>}

\* provider_config::azure::get_deployment_name
get_deployment_name(model) ==
    CASE model = <<"azure-", "gpt-4o">> -> <<"gpt-4o">>
      [] model = <<"azure-", "gpt-4o-mini">> -> <<"gpt-4o-mini">>
      [] OTHER -> IF model # <<>> /\ Head(model) = "azure-"
                  THEN Tail(model) ELSE model

\* AzureProvider::build_url
build_url(resource_name, model) ==
    <<"https://">> \o resource_name
        \o <<".openai.azure.com", "/", "openai", "/", "deployments", "/">>
        \o get_deployment_name(model)
        \o <<"/", "chat", "/", "completions", "?", "api-version=">>
        \o API_VERSION

\* the first position of s at or after i that holds one of the characters,
\* or Len(s) + 1
RECURSIVE FirstOf(_, _, _)
FirstOf(s, i, stops) ==
    IF i > Len(s) \/ s[i] \in stops THEN i ELSE FirstOf(s, i + 1, stops)

\* the first position of s at or after i that holds another character than
\* ch, or Len(s) + 1
RECURSIVE SkipAll(_, _, _)
SkipAll(s, i, ch) ==
    IF i > Len(s) \/ s[i] # ch THEN i ELSE SkipAll(s, i + 1, ch)

\* Client::post(&url): the URL as the HTTP client reads it.  After the
\* scheme it skips slashes, takes the host up to the next "/", "?" or "#",
\* and refuses an empty host or one with a space
IntoUrl(url) ==
    LET from == SkipAll(url, 2, "/")
        to   == FirstOf(url, from, {"/", "?", "#"})
        host == SubSeq(url, from, to - 1)
        stop == FirstOf(url, to, {"?", "#"})
    IN  IF host = <<>> \/ \E i \in 1..Len(host) : host[i] \in {" ", ":"}
        THEN [tag |-> "Err", error |-> "builder error"]
        ELSE [tag |-> "Ok", host |-> host,
              path |-> SubSeq(url, to, stop - 1),
              query |-> SubSeq(url, stop, Len(url))]

\* AzureProvider::complete, up to send(): the request that leaves, or the
\* error
AzureRequest(model, api_key) ==
    LET parsed == parse_api_key(api_key) IN
    IF parsed.tag = "Err" THEN parsed
    ELSE LET url == IntoUrl(build_url(parsed.resource_name, model)) IN
         IF url.tag = "Err"
         THEN [tag |-> "Err", error |-> "ProviderError"]
         ELSE [tag |-> "Sent", parsed |-> parsed, host |-> url.host,
               path |-> url.path, query |-> url.query,
               headers |-> [api_key |-> parsed.actual_api_key,
                            content_type |-> <<"application/json">>]]

\* update_provider_key accepts an Azure configure with the resource name and
\* the secret, and a chat completion for the model uses the route it wrote
AzureCall(resource_name, secret, model) ==
    LET request == [provider_id |-> "azure", api_key |-> secret,
                    azure_resource_name |-> Some(resource_name)]
    IN  /\ ConfigureRefused(request) = 0
        /\ Evaluate([instant |-> now, fn |-> "azure",
                     resource_name |-> resource_name,
                     secret |-> secret, model |-> model,
                     stored |-> api_key_to_store(request),
                     sent |-> AzureRequest(model, api_key_to_store(request))])

InitAzure == InitRate

NextAzure ==
    /\ evaluated = None
    /\ \E resource_name \in Texts, secret \in Texts, model \in AzureModels :
           AzureCall(resource_name, secret, model)

SpecAzure == InitAzure /\ [][NextAzure]_vars

\* the request of the spec for resource name R, secret K and the model
Expected(call) ==
    /\ call.sent.tag = "Sent"
    /\ call.sent.parsed.resource_name = call.resource_name
    /\ call.sent.parsed.actual_api_key = call.secret
    /\ call.sent.host = call.resource_name \o <<".openai.azure.com">>
    /\ call.sent.headers.api_key = call.secret
    /\ call.sent.path = <<"/", "openai", "/", "deployments", "/">>
                           \o Tail(call.model)
                           \o <<"/", "chat", "/", "completions">>

\* the text has none of the characters
Free(str, chars) == \A i \in 1..Len(str) : str[i] \notin chars

-----------------------------------------------------------------------------
(* main.rs, main: the route table of startup, for every content of the      *)
(* provider_keys table and of the environment, with the relational store    *)
(* enabled or not and the load succeeding or not.                           *)

\* the credentials a provider can have in the table or in the environment
StartupKeys == {None, Some(<<"k1">>), Some(<<"k2">>)}
KeyTables == [providers -> StartupKeys]

\* main: db_provider_keys, from Database::load_all_provider_keys; empty when
\* the database is not enabled and when the load fails
db_provider_keys(enabled, table, fault) ==
    IF enabled /\ fault # "db" THEN table ELSE [p \in providers |-> None]

\* the server starts
Startup(enabled, table, config, fault) ==
    Evaluate([instant |-> now, fn |-> "startup",
              enabled |-> enabled, table |-> table,
              config |-> config, fault |-> fault,
              model_routes |->
                  model_routes_of(db_provider_keys(enabled, table, fault),
                                  config)])

InitStartup == InitRate

NextStartup ==
    /\ evaluated = None
    /\ \E enabled \in BOOLEAN, table \in KeyTables, config \in KeyTables,
          fault \in DbFaults :
           Startup(enabled, table, config, fault)

SpecStartup == InitStartup /\ [][NextStartup]_vars

\* the credential of provider P that startup loaded from the relational
\* store, if any
LoadedKey(call, P) ==
    IF call.enabled /\ call.fault = "none" THEN call.table[P] ELSE None

\* C22: at startup the routes of each provider P carry the persisted
\* credential when one was loaded from the relational store, otherwise the
\* credential of the environment when one is set; with neither P has no
\* route; and all primary models of P carry that one credential.
C22_StartupPrefersPersisted ==
    \A call \in evaluated :
        call.fn = "startup" =>
            \A P \in providers :
                LET credential == IF LoadedKey(call, P) # None
                                  THEN LoadedKey(call, P) ELSE call.config[P]
                IN  \A model \in Range(get_primary_models(P)) :
                        call.model_routes[model]
                            = {ModelRoute(P, model, k) : k \in credential}

\* startup with a persisted and a different environment credential for one
\* provider and only an environment credential for another
C22_BothSourcesAtStartup ==
    \E call \in evaluated :
        /\ call.fn = "startup"
        /\ \E P \in providers :
              /\ LoadedKey(call, P) # None
              /\ call.config[P] # None
              /\ call.config[P] # LoadedKey(call, P)
        /\ \E P \in providers :
              LoadedKey(call, P) = None /\ call.config[P] # None

-----------------------------------------------------------------------------
(* cost.rs: CostCalculator::calculate_cost, applied to two pairs of token   *)
(* counts for a model of the table or an unknown one.  Costs are in         *)
(* billionths of a dollar, prices in thousandths of a dollar per million    *)
(* tokens, so the sums of the code are computed exactly.                    *)

TokenCounts == 0..MaxTokens
CostModels == DOMAIN pricing \cup {"gpt-5"}

\* the tolerance of test_cost_calculation, 0.00001 dollars
Tolerance == 10000

\* two calls of calculate_cost for one model
CostCall(model, p1, c1, p2, c2) ==
    Evaluate([instant |-> now, fn |-> "cost",
              model |-> model,
              first  |-> [prompt_tokens |-> p1, completion_tokens |-> c1,
                          cost |-> calculate_cost(model, p1, c1)],
              second |-> [prompt_tokens |-> p2, completion_tokens |-> c2,
                          cost |-> calculate_cost(model, p2, c2)]])

InitCost == InitRate

NextCost ==
    /\ evaluated = None
    /\ \E model \in CostModels, p1 \in TokenCounts, c1 \in TokenCounts,
          p2 \in TokenCounts, c2 \in TokenCounts :
           CostCall(model, p1, c1, p2, c2)

SpecCost == InitCost /\ [][NextCost]_vars

\* the prices the spec gives the model: those of the table, or 2.0 and 6.0
PricesOf(model) ==
    IF model \in DOMAIN pricing THEN pricing[model]
    ELSE [input |-> 2000, output |-> 6000]

\* C23: for a model whose two prices are strictly positive, and for an
\* unknown model, more prompt tokens with the same completion tokens, or
\* more completion tokens with the same prompt tokens, cost strictly more.
C23_CostStrictlyIncreasing ==
    \A call \in evaluated :
        ( /\ call.fn = "cost"
          /\ PricesOf(call.model).input > 0
          /\ PricesOf(call.model).output > 0 )
        => /\ ( /\ call.first.prompt_tokens < call.second.prompt_tokens
                /\ call.first.completion_tokens
                      = call.second.completion_tokens )
              => call.first.cost < call.second.cost
           /\ ( /\ call.first.completion_tokens
                      < call.second.completion_tokens
                /\ call.first.prompt_tokens = call.second.prompt_tokens )
              => call.first.cost < call.second.cost

\* the cost of a model of the table for more prompt tokens and the same
\* completion tokens
C23_MorePromptTokensPriced ==
    \E call \in evaluated :
        /\ call.fn = "cost"
        /\ call.model \in DOMAIN pricing
        /\ call.first.prompt_tokens < call.second.prompt_tokens
        /\ call.first.completion_tokens = call.second.completion_tokens
        /\ call.first.completion_tokens > 0

\* C24: calculate_cost(model, p, c) is (p x input price + c x output
\* price) / 10^6 with the prices of the table, or with 2.0 and 6.0 for a
\* model that is not in the table, within the tolerance.
C24_CostIsPricedSum ==
    \A call \in evaluated :
        call.fn = "cost" =>
            \A x \in {call.first, call.second} :
                LET expected ==
                        x.prompt_tokens * PricesOf(call.model).input
                        + x.completion_tokens * PricesOf(call.model).output
                IN  /\ x.cost - expected < Tolerance
                    /\ expected - x.cost < Tolerance

\* the cost of an unknown model for prompt and completion tokens
C24_UnknownModelPriced ==
    \E call \in evaluated :
        /\ call.fn = "cost"
        /\ call.model \notin DOMAIN pricing
        /\ call.first.prompt_tokens > 0
        /\ call.first.completion_tokens > 0
        /\ call.first.prompt_tokens # call.first.completion_tokens
        /\ call.first.cost > 0

-----------------------------------------------------------------------------
(* auth/jwt.rs: validate_token, applied at every instant around the expiry  *)
(* to the tokens generate_token makes, with the secret they were signed     *)
(* with or another one, and to a string that is no token.                   *)

\* when tokens are generated, and their lifetimes in seconds
IssueInstants == 0..MaxIssued
Lifetimes == {3600, JwtExpiry}

\* the strings validate_token is called on
SomeTokens ==
    {generate_token(u, UserEmail[u], UserRole[u], secret, expiry, t) :
        u \in UserIds, secret \in {JwtSecret, OtherSecret},
        expiry \in Lifetimes, t \in IssueInstants}
    \cup {Text(<<"invalid.token.here">>)}

\* the instants of validation: the expiry of the token and the seconds
\* around it and around the end of the leeway
InstantsFor(token) ==
    IF token.kind # "jwt" THEN {0}
    ELSE {token.iat, token.exp - 1, token.exp, token.exp + 1,
          token.exp + Leeway, token.exp + Leeway + 1}

\* validate_token(token, secret) when Utc::now() is clock
ValidateToken(token, secret, clock) ==
    Evaluate([instant |-> now, fn |-> "jwt",
              token |-> token, secret |-> secret,
              at |-> clock, claims |-> validate_token(token, secret, clock)])

InitJwt == InitRate

NextJwt ==
    /\ evaluated = None
    /\ \E token \in SomeTokens, secret \in {JwtSecret, OtherSecret} :
           \E clock \in InstantsFor(token) :
              ValidateToken(token, secret, clock)

SpecJwt == InitJwt /\ [][NextJwt]_vars

\* C25: validate_token accepts a token exactly when generate_token made it
\* with the same secret and its expiry has not passed, and then returns
\* the sub, email and role it was generated with; any other string and a
\* token signed with another secret are rejected.
C25_ValidateAcceptsUnexpiredOwnTokens ==
    \A call \in evaluated :
        call.fn = "jwt" =>
            /\ call.claims # None
                  <=> /\ call.token.kind = "jwt"
                      /\ call.token.signedWith = call.secret
                      /\ call.at <= call.token.exp
            /\ \A claims \in call.claims :
                  /\ claims.sub = call.token.sub
                  /\ claims.email = call.token.email
                  /\ claims.role = call.token.role

-----------------------------------------------------------------------------
(* The time of a rejection by require_auth, checked under SpecAuth.  Time   *)
(* is counted in rounds of bcrypt, next to which the rest of the request    *)
(* is short.                                                                *)

\* the bearer is an "sk-" string that is the secret of no record of the
\* virtual_keys table as the request found it
UnknownKey(r, token) ==
    /\ token.kind = "text"
    /\ starts_with_sk(token.chars)
    /\ \A p \in secretOf : p[2] = token.chars => p[1] \notin r.pre.stored

\* C26: a bearer that starts with "sk-" and matches no stored record causes
\* one slow-hash verification, against the dummy hash, before the request
\* fails with 401, and that rejection takes at least as long as the
\* verification of the bearer against a hash of it.
C26_UnknownKeyRejectedInEqualTime ==
    \A r \in lastResp :
        \A token \in r.header :
            ( /\ r.mw = "require_auth"
              /\ UnknownKey(r, token)
              /\ r.status = 401 )
            => /\ r.verifies = 1
               /\ r.rounds >= verify_rounds(hash_virtual_key(token.chars))

-----------------------------------------------------------------------------
(* The pre-flight check and the tokens dimension, checked under SpecRate.   *)

\* C27: the pre-flight gate check tests and increments the requests
\* dimension only: no step of a gate check changes the tokens counter of a
\* key, and a check is rejected only when the key has a requests limit and
\* no request remains under it.
C27_PreflightLeavesTokensAlone ==
    [][ /\ \A k \in GateKeys :
              zsets'[<<k, "tokens">>].members = zsets[<<k, "tokens">>].members
        /\ \A e \in lastGate' :
              e.outcome = "rejected"
              => /\ IsSome(KeyLimits[e.key].rate_limit_rpm)
                 /\ \A status \in e.status :
                       status.requests_remaining = Some(0) ]_vars


-----------------------------------------------------------------------------
(* The usage log of chat requests, checked under SpecCache *)

\* the number of rows of a usage table written for request i
RowsOf(table, i) ==
    Cardinality({n \in DOMAIN table : table[n].request = i})

\* request i of a list of requests ended in a cache hit or in a call of the
\* provider
Answered(list, i) ==
    /\ list[i].pc = "done"
    /\ list[i].get.hit \/ list[i].upstream > 0

\* C28: with the relational store enabled, every chat request that ended in
\* a cache hit or in a call of the provider, streaming or not, has exactly
\* one usage record, with zero tokens and the error text when the call of
\* the provider failed, and no step changes or removes a usage record
\* already written.
C28_OneUsageRecordPerServedRequest ==
    [][ /\ Len(usage_records') >= Len(usage_records)
        /\ \A n \in DOMAIN usage_records :
              usage_records'[n] = usage_records[n]
        /\ dbUp =>
              \A i \in DOMAIN chats' :
                 Answered(chats', i) =>
                    /\ RowsOf(usage_records', i) = 1
                    /\ chats'[i].answer = "Err" =>
                          \A n \in DOMAIN usage_records' :
                             usage_records'[n].request = i =>
                                /\ usage_records'[n].total_tokens = 0
                                /\ usage_records'[n].prompt_tokens = 0
                                /\ usage_records'[n].completion_tokens = 0
                                /\ IsSome(usage_records'[n].error) ]_vars


\* request i gets the error of its provider in this step
FailsNow(i) ==
    /\ chats[i].pc = "calling"
    /\ chats'[i].pc = "done"
    /\ chats'[i].answer = "Err"

\* C29: when the call of the provider of a request fails, one call of the
\* provider was made for the request, the request ends with the error of
\* the provider, and the error count of the health entry of its (provider,
\* model) pair has grown by exactly one.
C29_FailedCallCountedOnce ==
    [][ \A i \in DOMAIN chats :
           FailsNow(i) =>
              LET route == Unwrap(chats[i].route)
                  key   == HealthKey(route.provider, route.target_model)
              IN  /\ chats'[i].upstream = 1
                  /\ chats'[i].status = 502
                  /\ chats'[i].body = None
                  /\ key \in DOMAIN provider_health'
                  /\ provider_health'[key].error_count =
                        OrInsert(provider_health, key).error_count + 1 ]_vars

\* a request whose provider failed after an earlier failure of the same
\* provider and model
C29_SecondFailureOfAPair ==
    \E i \in DOMAIN chats :
       /\ chats[i].pc = "done"
       /\ chats[i].answer = "Err"
       /\ chats[i].upstream = 1
       /\ LET route == Unwrap(chats[i].route)
              key   == HealthKey(route.provider, route.target_model)
          IN  /\ key \in DOMAIN provider_health
              /\ provider_health[key].error_count = 2


-----------------------------------------------------------------------------
(* The checks of a configure request, checked under SpecRoute *)

\* the credential of a configure call in progress is one the checks of
\* update_provider_key let through
Configurable(c) ==
    /\ c.provider_id \in providers
    /\ trim(c.api_key) # <<>>
    /\ c.provider_id = "azure" =>
          /\ parse_api_key(c.api_key).tag = "Ok"
          /\ parse_api_key(c.api_key).resource_name # <<>>
          /\ parse_api_key(c.api_key).actual_api_key # <<>>

\* C30: a configure call that is rejected, with not-found for an unknown
\* provider tag, or with 400 for an empty or whitespace-only secret or for
\* Azure without a non-empty resource name, leaves the route table and the
\* persisted provider credentials unchanged; no call with such a request
\* goes on to write them.
C30_RejectedConfigureChangesNothing ==
    [][ /\ \A r \in lastResp' :
              (r.op = "update_provider_key" /\ r.status \in {400, 404})
              => UNCHANGED <<model_routes, provider_keys, calls, lastDone>>
        /\ \A c \in calls' :
              c.op = "configure" => Configurable(c) ]_vars

\* a configure request rejected with 400 at a gateway that holds a
\* credential persisted by an earlier call
C30_RejectedAfterConfigured ==
    /\ \E r \in lastResp : r.op = "update_provider_key" /\ r.status = 400
    /\ \E p \in providers : IsSome(provider_keys[p])


-----------------------------------------------------------------------------
(* Updates of a key by its owner, checked under SpecAuth *)

\* the fields of a key an update request can supply
Updatable ==
    {"name", "max_budget", "rate_limit_rpm", "rate_limit_tpm",
     "allowed_models", "blocked"}

\* key `new` is key `old` with exactly the fields the request supplies
\* changed to the values it supplies; the time of last use, which the
\* authenticator writes, is left aside
ChangedAsSupplied(old, new, request) ==
    \A f \in VirtualKeyFields \ {"last_used_at"} :
        new[f] = IF f \in Updatable /\ IsSome(request[f])
                 THEN (IF f = "blocked" THEN Unwrap(request[f])
                       ELSE request[f])
                 ELSE old[f]

\* response r answers an update of a key requested by the user the key
\* belongs to
OwnUpdate(r) ==
    /\ r.op = "update_key"
    /\ r.admitted
    /\ \E k \in r.pre.key : k.user_id = Some(Unwrap(r.auth_user).user_id)

\* C31: an update of a key requested by the owner of the key either
\* succeeds, returning the updated key with exactly the supplied fields
\* changed, or returns an error and leaves the stored key unchanged.
C31_OwnerUpdateAllOrNothing ==
    \A r \in lastResp :
        OwnUpdate(r) =>
            \A old \in r.pre.key :
                \/ /\ r.status = 200
                   /\ \E request \in UpdateRequests :
                         \E new \in find_by_id(vkeys, r.target) :
                            /\ ChangedAsSupplied(old, new, request)
                            /\ r.body = {Serialize(new)}
                \/ /\ r.status # 200
                   /\ \E new \in find_by_id(vkeys, r.target) :
                         \A f \in VirtualKeyFields \ {"last_used_at"} :
                            new[f] = old[f]


-----------------------------------------------------------------------------
(* The route table between provider calls, checked under SpecRoute *)

\* the routes of the primary models of provider P
RoutesOf(P) == {model_routes[m] : m \in Range(get_primary_models(P))}

\* C32: whenever no configure or delete call is in progress, each provider
\* has a route for none of its primary models, or for all of them with one
\* credential, also after concurrent calls on the provider have completed.
C32_RoutesOfAProviderAgree ==
    calls = {} =>
        \A P \in providers :
            \/ RoutesOf(P) = {None}
            \/ /\ None \notin RoutesOf(P)
               /\ \A r1 \in RoutesOf(P), r2 \in RoutesOf(P) :
                     Unwrap(r1).api_key = Unwrap(r2).api_key


\* the routes a restart gives the primary models of provider P
RestartedRoutesOf(P) ==
    {model_routes_of(provider_keys, EnvKeys)[m] :
        m \in Range(get_primary_models(P))}

\* C33: after the configure and delete calls on provider P have completed,
\* every persistence call having succeeded, P has a persisted credential
\* exactly when P has routes, the persisted credential is the one the routes
\* of P carry, and a restart gives P the routes it has.
C33_PersistedCredentialMatchesRoutes ==
    \A P \in providers :
        ( /\ calls = {}
          /\ \E done \in lastDone[P] : done.persisted )
        => /\ IsSome(provider_keys[P]) <=> RoutesOf(P) # {None}
           /\ \A r \in RoutesOf(P) : \A route \in r :
                 Some(route.api_key) = provider_keys[P]
           /\ RestartedRoutesOf(P) = RoutesOf(P)


-----------------------------------------------------------------------------
(* Blocked and deleted keys, checked under SpecAuth *)

\* response r answers a request that presented the secret of a key blocked
\* or deleted more than `ttl` seconds before
PresentsDisabled(r, ttl) ==
    \E p \in secretOf, d \in disabledAt :
        /\ r.header = Some(Text(p[2]))
        /\ d[1] = p[1]
        /\ now > d[2] + ttl

-----------------------------------------------------------------------------
(* The entries a gate check writes, checked under SpecRate *)

\* task r makes the round trip of its dimension in this step and the
\* pipeline is executed
RoundTrip(r) ==
    /\ CopiesIn(r, gate') < CopiesIn(r, gate)
    /\ \A e \in lastGate' : e.via # "storeerr"

\* C35: every gate check on a key with a requests limit adds exactly one
\* entry, scored with the time of the check, to the requests set of the
\* key, whether the check is admitted or rejected.
C35_EveryCheckAddsOneEntry ==
    [][ \A r \in BagToSet(gate) :
          (r.pc = "requests" /\ RoundTrip(r))
          => LET old == zsets[<<r.key, "requests">>].members
                 new == zsets'[<<r.key, "requests">>].members
             IN  /\ Cardinality(new \ old) = 1
                 /\ \A member \in new \ old : member.ts = CheckTime(r) ]_vars


-----------------------------------------------------------------------------
(* A request after a rejection, checked under SpecRate *)

\* the entries of dimension d of key k scored later than t - 60, the entry
\* the check of task r has added for itself not counted
OthersInWindow(r, d, t) ==
    LET mine == IF d = "requests" /\ r.pc = "tokens"
                   /\ IsSome(KeyLimits[r.key].rate_limit_rpm)
                THEN 1 ELSE 0
    IN  RecentCount(r.key, d, t) - mine

\* the check of task r is the only one of its key in the 60 seconds that end
\* at its time
AloneInWindow(r) ==
    \A d \in Dims : OthersInWindow(r, d, CheckTime(r)) <= 0

-----------------------------------------------------------------------------
(* main.rs api_routes with config.require_auth: /v1/chat/completions sits   *)
(* behind require_auth and enforce_rate_limit, so chat_completions runs for *)
(* a request once the gate has passed it on with next.run(request).         *)

\* chat completion requests the gate passes on to the handler in one
\* behaviour
MaxGated == 2

\* the response cache with the entry a completion of the first routed model
\* left at the start of the run
CachedBefore ==
    set_ex(<<>>, generate_cache_key(get_primary_models("openai")[1], <<"ping">>),
           to_string(CHOOSE r \in Completions : r.id = "a"),
           cache_ttl_seconds, 0)

\* the gate check that has ended last passed its request on after the
\* counter store executed its pipelines
PassedOn(e) == e.via = "store" /\ e.outcome = "next"

\* chat_completions, up to the call of the provider, for the request the
\* gate has passed on last: the handler begins where next.run(request) is
\* called, once for each request
GatedChatBegin(request, fault) ==
    /\ Len(chats) < MaxGated
    /\ \E e \in lastGate : PassedOn(e)
    /\ Len(chats) + 1 = BagCardinality(admitted)
    /\ ChatBegin(request, fault)

\* The gateway with authentication required, the counter store and the
\* response cache up, keys with limits in the relational store.  A request
\* is followed from the gate to the point where chat_completions has its
\* response or calls the provider.
InitGated ==
    /\ AuthAtRest
    /\ RouteAtRest
    /\ RateAtRest
    /\ now = 0
    /\ redisUp = TRUE
    /\ cache_enabled = TRUE
    /\ llm_cache = CachedBefore
    /\ chats = <<>>
    /\ finished = 0
    /\ usage_records = <<>>
    /\ provider_health = <<>>
    /\ lastHealth = None
    /\ validity = None
    /\ evaluated = None

\* the keys with a requests-per-minute limit
RpmKeys == {k \in GateKeys : IsSome(KeyLimits[k].rate_limit_rpm)}

NextGated ==
    \/ Tick
    \/ \E k \in RpmKeys : GateEnter(k)
    \/ \E r \in BagToSet(gate) : GateRequests(r)
    \/ \E r \in BagToSet(gate) : GateTokens(r)
    \/ \E request \in ChatRequests, fault \in ChatFaults :
          GatedChatBegin(request, fault)

SpecGated == InitGated /\ [][NextGated]_vars

\* the request chats[i] ended where the route of its model is resolved
\* (model not found) or where the response cache is looked up (a hit)
EndedEarly(list, i) ==
    /\ list[i].pc = "done"
    /\ list[i].upstream = 0
    /\ list[i].route = None \/ list[i].get.hit

-----------------------------------------------------------------------------
(* The unavailable entries of the health tracker, checked under SpecHealth *)

-----------------------------------------------------------------------------
(* The shape of the route table, checked under SpecRoute *)

\* provider_config::get_primary_models: the provider tags with a model list
KnownProviderTags == {"anthropic", "gemini", "openai", "azure"}

\* C39: in every reachable state of the route table, each route's key is in
\* the primary-model list of the route's provider, the route's target model
\* equals its key, and the route's provider is one of the four known tags.
C39_RoutesAreOfPrimaryModels ==
    \A model \in DOMAIN model_routes :
        \A route \in model_routes[model] :
            /\ model \in Range(get_primary_models(route.provider))
            /\ route.target_model = model
            /\ route.provider \in KnownProviderTags

\* C39, reached: a configure call has returned for azure, whose models are
\* routed beside those startup routed to openai
C39_ConfiguredBesideStartup ==
    /\ \E done \in lastDone["azure"] : done.op = "configure"
    /\ \A model \in Range(get_primary_models("azure")) :
          \E route \in model_routes[model] : route.provider = "azure"
    /\ \E model \in Range(get_primary_models("openai")) :
          \E route \in model_routes[model] : route.api_key = <<"k0">>


-----------------------------------------------------------------------------
(* The spend of the keys.  VirtualKey::increment_spend has no caller, so the *)
(* writers of the virtual_keys table are the key handlers; the chat         *)
(* completions run beside them.                                             *)

\* chat completion requests in one behaviour beside the key handlers
MaxSpendChats == 1

\* chat_completions up to the call of the provider
SpendChatBegin(request, fault) ==
    /\ Len(chats) < MaxSpendChats
    /\ ChatBegin(request, fault)

\* The gateway as AuthStart has it with the routes of startup, the response
\* cache on when the cache store is up and then holding the response of a
\* completion served before
InitSpend ==
    /\ AuthStart
    /\ RouteAtRest
    /\ cache_enabled = redisUp
    /\ llm_cache = IF cache_enabled THEN CachedBefore ELSE <<>>
    /\ chats = <<>>
    /\ finished = 0
    /\ usage_records = <<>>
    /\ provider_health = <<>>
    /\ lastHealth = None
    /\ validity = None
    /\ evaluated = None

NextSpend ==
    \/ \E h \in Headers, fault \in Faults : key_routes(h, fault)
    \/ \E request \in ChatRequests, fault \in ChatFaults :
          SpendChatBegin(request, fault)
    \/ \E i \in DOMAIN chats, answer \in Answers, fault \in ChatFaults,
          latency_ms \in Latencies :
          ChatReturn(i, answer, fault, latency_ms)

SpecSpend == InitSpend /\ [][NextSpend]_vars

\* the current_spend of the rows of the virtual_keys table, by key id
SpendOf(table) == {<<k.id, k.current_spend>> : k \in table}

\* C40: no step of a chat-completions request, whether it ends in a cache
\* hit, a provider success or a provider failure, changes the current_spend
\* of a key, and every key has the current_spend 0 it was created with, so
\* none is negative.
C40_SpendStaysAtCreationValue ==
    /\ [](\A k \in vkeys : k.current_spend = 0)
    /\ [][ chats' # chats => SpendOf(vkeys') = SpendOf(vkeys) ]_vars

\* C40, reached: beside a key of the table that has been updated, a request
\* was served by the provider at a cost above 0, or from the cache
C40_ServedBesideAKey ==
    /\ \E k \in vkeys : k.blocked \/ IsSome(k.max_budget)
    /\ \E i \in DOMAIN chats :
          /\ chats[i].pc = "done" /\ chats[i].status = 200
          /\ \/ chats[i].get.hit
             \/ \E row \in Range(usage_records) :
                   row.request = i /\ row.cost_usd > 0

=============================================================================
